---- MODULE Spec2Model ----
(***************************************************************************)
(* State-machine model of the reinforcing-mars simulation core             *)
(* (src/simulation/src): the Game phase machine, the turn scheduler, the   *)
(* deferred action queue and the operations they are built from.           *)
(*                                                                         *)
(* Conventions.                                                            *)
(*  - A Rust operation `fn op(&mut self, ..) -> Result<..>` is an operator *)
(*    op(g, ..) from a game record g to [g |-> game after, ret |-> value   *)
(*    returned]; the value returned is the Rust error string, or "Ok...".  *)
(*  - The action OpName applies op to the current state.                   *)
(*  - Vec<T> is a sequence, Option<T> a sequence of length 0 or 1.         *)
(*  - A player's id is its seat: Rust index i is seat i + 1.  Player names *)
(*    (the ids of Game::new) are taken to be distinct.                     *)
(***************************************************************************)
EXTENDS Integers, Sequences, FiniteSets, TLC

(***************************************************************************)
(* Bounds of the model.                                                    *)
(***************************************************************************)
MaxPlayers == 2
MaxGeneration == 2
MaxInitialDraftIteration == 3
MaxMegacredits == 45
MaxHand == 1
MaxDeferred == 3

\* The players of a game played to its end.
EndPlayers == 1

\* The players taking turns in an Action phase.
TurnPlayers == 3

\* A step count above the length of every global-parameter track, and one
\* below.
ManySteps == 2147483647
FewSteps == 3

\* The step count the tests of the code ask for at the ceiling.
TestSteps == 100

\* A user-facing value inside every scale.
SomeValue == 5
MaxDefined == 2
MaxProduction == 1
MaxDebt == 25
MaxStock == 2
SomeCost == 8
DraftPlayers == 3
MaxDraftIteration == 4
MaxDraftRound == 5
MaxDrafted == 5
MaxSelected == 2
MaxDraftGeneration == 3

VARIABLES
    players,                  \* Game.players
    phase,                    \* Game.phase
    generation,               \* Game.generation
    active_player_id,         \* Game.active_player_id
    passed_players,           \* Game.passed_players
    actions_taken_this_turn,  \* Game.actions_taken_this_turn
    global_parameters,        \* Game.global_parameters (step indices)
    venus_next,               \* Game.venus_next
    prelude,                  \* Game.prelude
    draft_variant,            \* Game.draft_variant
    solo_mode,                \* Game.solo_mode
    draft_round,              \* Game.draft_round
    initial_draft_iteration,  \* Game.initial_draft_iteration
    deferred_actions,         \* Game.deferred_actions
    milestones,               \* Game.milestones
    claimed_milestones,       \* Game.claimed_milestones
    awards,                   \* Game.awards
    funded_awards,            \* Game.funded_awards
    caller_queue,             \* a DeferredActionQueue owned by the caller
    op,                       \* the operation called last, with its input
    ret,                      \* the value it returned
    drain_log,                \* the deferred actions it executed, in order
    done,                     \* the entries that have left a queue
    stalled,                  \* the entries that last returned NeedsInput
    run                       \* the Pass actions made in a row

gameVars == <<players, phase, generation, active_player_id, passed_players,
              actions_taken_this_turn, global_parameters, venus_next, prelude,
              draft_variant, solo_mode, draft_round, initial_draft_iteration,
              deferred_actions, milestones, claimed_milestones, awards,
              funded_awards>>

vars == <<gameVars, caller_queue, op, ret, drain_log, done, stalled, run>>

(***************************************************************************)
(* Small helpers for Vec and Option.                                       *)
(***************************************************************************)
Range(s) == {s[i] : i \in 1..Len(s)}

Contains(s, x) == \E i \in 1..Len(s) : s[i] = x

\* Vec::retain: keep the elements satisfying keep, in order.
RECURSIVE Retain(_, _)
Retain(s, keep) ==
    IF s = <<>> THEN <<>>
    ELSE IF Head(s) \in keep THEN <<Head(s)>> \o Retain(Tail(s), keep)
         ELSE Retain(Tail(s), keep)

Min(a, b) == IF a <= b THEN a ELSE b

\* A cast `as u8`: the value modulo 2^8.
AsU8(x) == x % 256

\* u32::saturating_sub
SaturatingSub(a, b) == IF a >= b THEN a - b ELSE 0

\* Ord::max
Max(a, b) == IF a >= b THEN a ELSE b

Ok == "Ok"

(***************************************************************************)
(* Phase (game/phase.rs).                                                  *)
(***************************************************************************)
Phase == {"InitialDrafting", "Preludes", "Research", "Drafting", "Action",
          "Production", "Solar", "Intergeneration", "End"}

(***************************************************************************)
(* Global parameters (game/global_params.rs).                              *)
(***************************************************************************)
MAX_OCEANS == 9
MAX_OXYGEN == 14
MAX_TEMPERATURE == 8
MIN_TEMPERATURE == -30
MAX_VENUS == 30
TEMPERATURE_STEP == 2
OXYGEN_STEP == 1
OCEANS_STEP == 1
VENUS_STEP == 2
TEMPERATURE_MAX_LEVEL == 20
OXYGEN_MAX_LEVEL == 15
OCEANS_MAX_LEVEL == 10
VENUS_MAX_LEVEL == 16

GlobalParameter == {"Oceans", "Oxygen", "Temperature", "Venus"}

\* GlobalParameters::new(): every step index is 0.
GlobalParametersNew == [oceans |-> 0, oxygen |-> 0, temperature |-> 0, venus |-> 0]

\* GlobalParameters::get: the user-facing value of a parameter.
GlobalParametersGet(gp, param) ==
    CASE param = "Oceans" -> gp.oceans
      [] param = "Oxygen" -> gp.oxygen
      [] param = "Temperature" -> MIN_TEMPERATURE + gp.temperature * TEMPERATURE_STEP
      [] param = "Venus" -> gp.venus * VENUS_STEP

\* The highest step index of a parameter (MAX_LEVEL - 1).
MaxScale(param) ==
    CASE param = "Oceans" -> OCEANS_MAX_LEVEL - 1
      [] param = "Oxygen" -> OXYGEN_MAX_LEVEL - 1
      [] param = "Temperature" -> TEMPERATURE_MAX_LEVEL - 1
      [] param = "Venus" -> VENUS_MAX_LEVEL - 1

Scale(gp, param) ==
    CASE param = "Oceans" -> gp.oceans
      [] param = "Oxygen" -> gp.oxygen
      [] param = "Temperature" -> gp.temperature
      [] param = "Venus" -> gp.venus

WithScale(gp, param, v) ==
    CASE param = "Oceans" -> [gp EXCEPT !.oceans = v]
      [] param = "Oxygen" -> [gp EXCEPT !.oxygen = v]
      [] param = "Temperature" -> [gp EXCEPT !.temperature = v]
      [] param = "Venus" -> [gp EXCEPT !.venus = v]

\* A faulty increase: the steps that were left are returned, not the steps
\* applied.
GlobalParametersIncrease_left(gp, param, steps) ==
    IF steps = 0 THEN [gp |-> gp, ret |-> 0]
    ELSE LET available == SaturatingSub(MaxScale(param), Scale(gp, param))
             actual_steps == Min(steps, available)
         IN  [gp |-> WithScale(gp, param, AsU8(Scale(gp, param) + actual_steps)),
              ret |-> available]

\* A faulty increase: a parameter at its maximum starts again from 0.
GlobalParametersIncrease_wrap(gp, param, steps) ==
    IF steps = 0 THEN [gp |-> gp, ret |-> 0]
    ELSE LET available == SaturatingSub(MaxScale(param), Scale(gp, param))
             actual_steps == Min(steps, available)
         IN  [gp |-> WithScale(gp, param,
                               IF available = 0 THEN 0
                               ELSE Scale(gp, param) + actual_steps),
              ret |-> actual_steps]

\* GlobalParameters::increase: [gp |-> track after, ret |-> steps applied].
GlobalParametersIncrease(gp, param, steps) ==
    IF steps = 0 THEN [gp |-> gp, ret |-> 0]
    ELSE LET available == SaturatingSub(MaxScale(param), Scale(gp, param))
             actual_steps == Min(steps, available)
         IN  [gp |-> WithScale(gp, param, AsU8(Scale(gp, param) + actual_steps)),
              ret |-> actual_steps]

\* i32::clamp
Clamp(x, lo, hi) == IF x < lo THEN lo ELSE IF x > hi THEN hi ELSE x

\* The *_value_to_scale functions: the step index a user-facing value is
\* rounded and clamped to.
ValueToScale(param, value) ==
    CASE param = "Oceans" -> AsU8(Clamp(value, 0, MAX_OCEANS))
      [] param = "Oxygen" -> AsU8(Clamp(value, 0, MAX_OXYGEN))
      [] param = "Temperature" ->
            LET clamped == Clamp(value, MIN_TEMPERATURE, MAX_TEMPERATURE)
                steps_from_min ==
                    ((clamped - MIN_TEMPERATURE) + TEMPERATURE_STEP \div 2)
                        \div TEMPERATURE_STEP
            IN  AsU8(Clamp(steps_from_min, 0, TEMPERATURE_MAX_LEVEL - 1))
      [] param = "Venus" ->
            LET clamped == Clamp(value, 0, MAX_VENUS)
                scale == AsU8((clamped + VENUS_STEP \div 2) \div VENUS_STEP)
            IN  Min(scale, VENUS_MAX_LEVEL - 1)

\* GlobalParameters::set
GlobalParametersSet(gp, param, value) == WithScale(gp, param, ValueToScale(param, value))

\* GlobalParameters::add (deprecated): the amount is turned into steps,
\* rounded up, and passed to increase.
GlobalParametersAdd(gp, param, amount) ==
    IF amount <= 0 THEN gp
    ELSE LET steps ==
                 CASE param = "Temperature" ->
                         (amount + TEMPERATURE_STEP - 1) \div TEMPERATURE_STEP
                   [] param = "Venus" -> (amount + VENUS_STEP - 1) \div VENUS_STEP
                   [] OTHER -> amount
         IN  GlobalParametersIncrease(gp, param, steps).gp

(***************************************************************************)
(* Players (player/player.rs, player/resources.rs, player/production.rs).  *)
(***************************************************************************)
ResourcesNew == [megacredits |-> 0, steel |-> 0, titanium |-> 0,
                 plants |-> 0, energy |-> 0, heat |-> 0]

ProductionNew == [megacredits |-> 0, steel |-> 0, titanium |-> 0,
                  plants |-> 0, energy |-> 0, heat |-> 0]

STARTING_TR == 20
SOLO_STARTING_TR == 14

\* Player::new
PlayerNew ==
    [resources |-> ResourcesNew,
     production |-> ProductionNew,
     terraform_rating |-> STARTING_TR,
     cards_in_hand |-> <<>>,
     played_cards |-> <<>>,
     draft_hand |-> <<>>,
     drafted_cards |-> <<>>,
     needs_to_draft |-> FALSE,
     dealt_corporation_cards |-> <<>>,
     selected_corporation |-> <<>>,
     selected_preludes |-> <<>>,
     dealt_prelude_cards |-> <<>>]

\* DeferredActionQueue::new
DeferredActionQueueNew == [queue |-> <<>>, insertion_counter |-> 0]

\* Game::new for n players and the given expansion flags.
GameNew(n, venus, prel, draft) ==
    [players |-> [i \in 1..n |->
                    IF n = 1 THEN [PlayerNew EXCEPT !.terraform_rating = SOLO_STARTING_TR]
                    ELSE PlayerNew],
     phase |-> "InitialDrafting",
     generation |-> 1,
     active_player_id |-> IF n >= 1 THEN <<1>> ELSE <<>>,
     passed_players |-> <<>>,
     actions_taken_this_turn |-> 0,
     global_parameters |-> GlobalParametersNew,
     venus_next |-> venus,
     prelude |-> prel,
     draft_variant |-> draft,
     solo_mode |-> (n = 1),
     draft_round |-> 1,
     initial_draft_iteration |-> 1,
     deferred_actions |-> DeferredActionQueueNew,
     milestones |-> <<>>,
     claimed_milestones |-> <<>>,
     awards |-> <<>>,
     funded_awards |-> <<>>]

\* The game record of the current state.
Game ==
    [players |-> players,
     phase |-> phase,
     generation |-> generation,
     active_player_id |-> active_player_id,
     passed_players |-> passed_players,
     actions_taken_this_turn |-> actions_taken_this_turn,
     global_parameters |-> global_parameters,
     venus_next |-> venus_next,
     prelude |-> prelude,
     draft_variant |-> draft_variant,
     solo_mode |-> solo_mode,
     draft_round |-> draft_round,
     initial_draft_iteration |-> initial_draft_iteration,
     deferred_actions |-> deferred_actions,
     milestones |-> milestones,
     claimed_milestones |-> claimed_milestones,
     awards |-> awards,
     funded_awards |-> funded_awards]

Seats(g) == 1..Len(g.players)

\* Replace the record of the player in seat s.
WithPlayer(g, s, p) == [g EXCEPT !.players[s] = p]

\* What an operation hands back: the game after it and the value it returned.
R(g, r) == [g |-> g, ret |-> r]

\* The seat of a player id, if the id is one of the game's players.
KnownPlayer(g, s) == s \in Seats(g)

\* Apply f to the record of every player.
MapPlayers(g, f(_)) == [g EXCEPT !.players = [i \in Seats(g) |-> f(g.players[i])]]

(***************************************************************************)
(* Card ids are the placeholder strings the code formats.                  *)
(***************************************************************************)
ProjectCardIds == <<"project_card_0", "project_card_1", "project_card_2",
                    "project_card_3", "project_card_4">>
PreludeCardIds == <<"prelude_card_0", "prelude_card_1", "prelude_card_2",
                    "prelude_card_3">>
CorporationCardIds == <<"corporation_card_0", "corporation_card_1">>

INITIAL_DRAFT_CARDS == 5
STANDARD_DRAFT_CARDS == 4
CORPORATION_STARTING_MC == 42

(***************************************************************************)
(* Turn scheduler (game/game.rs).                                          *)
(***************************************************************************)
\* A faulty all_players_passed: satisfied as soon as one player has passed.
all_players_passed_any(g) == Len(g.passed_players) >= 1

\* Game::all_players_passed
all_players_passed(g) == Len(g.passed_players) >= Len(g.players)

\* A faulty reset_passed_players: the passed set is kept.
reset_passed_players_keep(g) == g

\* Game::reset_passed_players
reset_passed_players(g) == [g EXCEPT !.passed_players = <<>>]

\* Game::end_action_phase
end_action_phase(g) ==
    IF g.phase # "Action" THEN R(g, "Not in action phase")
    ELSE IF ~all_players_passed(g) THEN R(g, "Not all players have passed")
    ELSE R([reset_passed_players(g) EXCEPT !.phase = "Production"], Ok)

\* The seat the scan starts from: the active player's position, or the
\* first seat when there is no active player or it is not a player.
CurrentIndex(g) ==
    IF g.active_player_id # <<>> /\ KnownPlayer(g, g.active_player_id[1])
    THEN g.active_player_id[1] ELSE 1

\* The seat `offset` places after seat s, wrapping around.
SeatAfter(g, s, offset) == ((s - 1 + offset) % Len(g.players)) + 1

\* Game::next_player
next_player(g) ==
    IF Len(g.players) = 0 THEN g
    ELSE [g EXCEPT !.active_player_id = <<SeatAfter(g, CurrentIndex(g), 1)>>]

\* A faulty move_to_next_active_player: the next seat becomes active whether
\* its player has passed or not.
move_to_next_active_player_any(g) ==
    IF Len(g.players) = 0 THEN g
    ELSE [g EXCEPT !.active_player_id = <<SeatAfter(g, CurrentIndex(g), 1)>>,
                   !.actions_taken_this_turn = 0]

\* Game::move_to_next_active_player
move_to_next_active_player(g) ==
    IF Len(g.players) = 0 THEN g
    ELSE LET cur == CurrentIndex(g)
             free == {o \in 1..Len(g.players) :
                        ~Contains(g.passed_players, SeatAfter(g, cur, o))}
         IN  IF free = {} THEN g
             ELSE LET o == CHOOSE x \in free : \A y \in free : x <= y
                  IN  [g EXCEPT !.active_player_id = <<SeatAfter(g, cur, o)>>,
                                !.actions_taken_this_turn = 0]

\* Game::pass_player
pass_player(g) ==
    IF g.phase # "Action" THEN R(g, "Not in action phase")
    ELSE IF g.active_player_id = <<>> THEN R(g, "No active player")
    ELSE LET player_id == g.active_player_id[1]
             g1 == IF Contains(g.passed_players, player_id) THEN g
                   ELSE [g EXCEPT !.passed_players = Append(@, player_id)]
         IN  IF all_players_passed(g1)
             THEN LET e == end_action_phase(g1)
                  IN  IF e.ret # Ok THEN R(g1, e.ret) ELSE R(e.g, Ok)
             ELSE R(move_to_next_active_player(g1), Ok)

\* Game::handle_neutral_player_action (a placeholder in the code)
handle_neutral_player_action(g) == R(g, Ok)

\* Game::start_action_phase
start_action_phase(g) ==
    IF g.phase # "Action" THEN R(g, "Not in action phase")
    ELSE LET g1 == [reset_passed_players(g) EXCEPT !.actions_taken_this_turn = 0]
         IN  IF Len(g1.players) = 0 THEN R(g1, "No players in game")
             ELSE LET g2 == [g1 EXCEPT !.active_player_id = <<1>>]
                  IN  IF g2.solo_mode THEN handle_neutral_player_action(g2)
                      ELSE R(g2, Ok)

\* Game::can_take_action
can_take_action(g) == g.actions_taken_this_turn < 2

(***************************************************************************)
(* Research phase (game/research.rs).                                      *)
(***************************************************************************)
\* Game::start_initial_research_phase
start_initial_research_phase(g) ==
    LET deal(p) == [p EXCEPT !.dealt_corporation_cards = CorporationCardIds,
                             !.dealt_prelude_cards =
                                 IF g.prelude THEN PreludeCardIds ELSE @]
    IN  R(MapPlayers(g, deal), Ok)

\* Game::start_standard_research_phase
start_standard_research_phase(g) ==
    LET deal(p) == IF p.drafted_cards = <<>>
                   THEN [p EXCEPT !.drafted_cards =
                            SubSeq(ProjectCardIds, 1, STANDARD_DRAFT_CARDS)]
                   ELSE p
    IN  R(MapPlayers(g, deal), Ok)

\* Game::start_research_phase
start_research_phase(g) ==
    IF g.generation = 1 THEN start_initial_research_phase(g)
    ELSE start_standard_research_phase(g)

\* Game::select_corporation
select_corporation(g, s, corporation_id) ==
    IF ~KnownPlayer(g, s) THEN R(g, "Player not found")
    ELSE LET p == g.players[s]
         IN  IF ~Contains(p.dealt_corporation_cards, corporation_id)
             THEN R(g, "Corporation not in dealt cards")
             ELSE R(WithPlayer(g, s,
                      [p EXCEPT !.selected_corporation = <<corporation_id>>,
                                !.dealt_corporation_cards =
                                    Retain(@, Range(@) \ {corporation_id}),
                                !.resources.megacredits =
                                    @ + CORPORATION_STARTING_MC]), Ok)

\* Game::select_preludes
select_preludes(g, s, prelude_ids) ==
    IF ~g.prelude THEN R(g, "Prelude expansion not enabled")
    ELSE IF Len(prelude_ids) # 2 THEN R(g, "Must select exactly 2 prelude cards")
    ELSE IF ~KnownPlayer(g, s) THEN R(g, "Player not found")
    ELSE LET p == g.players[s]
         IN  IF \E i \in 1..Len(prelude_ids) :
                     ~Contains(p.dealt_prelude_cards, prelude_ids[i])
             THEN R(g, "Prelude not in dealt prelude cards")
             ELSE R(WithPlayer(g, s,
                      [p EXCEPT !.selected_preludes = prelude_ids,
                                !.dealt_prelude_cards =
                                    Retain(@, Range(@) \ Range(prelude_ids))]), Ok)

\* Game::is_research_phase_complete
is_research_phase_complete(g, s) ==
    IF ~KnownPlayer(g, s) THEN FALSE
    ELSE IF g.generation = 1
         THEN /\ g.players[s].selected_corporation # <<>>
              /\ ~(g.prelude /\ Len(g.players[s].selected_preludes) # 2)
         ELSE TRUE

\* Game::all_players_research_complete
all_players_research_complete(g) ==
    \A s \in Seats(g) : is_research_phase_complete(g, s)

ResearchTarget(g) ==
    IF g.generation = 1
    THEN IF g.prelude THEN "Preludes" ELSE "Action"
    ELSE "Action"

\* Game::complete_research_phase
complete_research_phase(g) ==
    IF ~all_players_research_complete(g)
    THEN R(g, "Not all players have completed research phase")
    ELSE R([g EXCEPT !.phase = ResearchTarget(g)], Ok)

\* The preludes auto_complete_research_phase selects for a player: of the
\* first `needed` dealt cards, those not selected yet.
AutoSelectedPreludes(p) ==
    LET needed == Min(2 - Len(p.selected_preludes), Len(p.dealt_prelude_cards))
        fresh == {c \in Range(SubSeq(p.dealt_prelude_cards, 1, needed)) :
                    ~Contains(p.selected_preludes, c)}
    IN  p.selected_preludes \o Retain(SubSeq(p.dealt_prelude_cards, 1, needed), fresh)

\* Game::auto_complete_research_phase
auto_complete_research_phase(g) ==
    IF g.phase # "Research" THEN R(g, "Not in research phase")
    ELSE LET select(p) ==
                 IF g.generation # 1 THEN p
                 ELSE [p EXCEPT
                         !.selected_corporation =
                             IF @ = <<>> /\ p.dealt_corporation_cards # <<>>
                             THEN <<p.dealt_corporation_cards[1]>> ELSE @,
                         !.selected_preludes =
                             IF g.prelude /\ Len(@) < 2 /\ p.dealt_prelude_cards # <<>>
                             THEN AutoSelectedPreludes(p) ELSE @]
             g1 == MapPlayers(g, select)
             c == complete_research_phase(g1)
         IN  IF c.ret # Ok THEN R(g1, c.ret) ELSE c

(***************************************************************************)
(* Preludes phase (game/preludes.rs).                                      *)
(***************************************************************************)
\* Game::start_preludes_phase
start_preludes_phase(g) ==
    IF ~g.prelude THEN R(g, "Prelude expansion not enabled")
    ELSE IF \E s \in Seats(g) : Len(g.players[s].selected_preludes) # 2
    THEN R(g, "Player has not selected 2 preludes")
    ELSE R(IF Len(g.players) > 0 THEN [g EXCEPT !.active_player_id = <<1>>] ELSE g, Ok)

\* Game::has_played_all_preludes
has_played_all_preludes(g, s) ==
    IF ~KnownPlayer(g, s) THEN FALSE
    ELSE LET p == g.players[s]
         IN  /\ Len(p.selected_preludes) = 2
             /\ \A i \in 1..Len(p.selected_preludes) :
                    Contains(p.played_cards, p.selected_preludes[i])

\* Game::all_players_played_preludes
all_players_played_preludes(g) ==
    \A s \in Seats(g) : has_played_all_preludes(g, s)

\* Game::next_prelude_player (Option)
next_prelude_player(g) ==
    LET waiting == {s \in Seats(g) : ~has_played_all_preludes(g, s)}
    IN  IF waiting = {} THEN <<>>
        ELSE <<CHOOSE s \in waiting : \A t \in waiting : s <= t>>

\* Game::play_prelude (execute_prelude_effects is a placeholder in the code)
play_prelude(g, s, prelude_id) ==
    IF ~g.prelude THEN R(g, "Prelude expansion not enabled")
    ELSE IF ~KnownPlayer(g, s) THEN R(g, "Player not found")
    ELSE LET p == g.players[s]
         IN  IF ~Contains(p.selected_preludes, prelude_id)
             THEN R(g, "Prelude not in selected preludes")
             ELSE IF Contains(p.played_cards, prelude_id)
             THEN R(g, "Prelude already played")
             ELSE R(WithPlayer(g, s,
                      [p EXCEPT !.played_cards = Append(@, prelude_id)]), Ok)

\* Game::complete_preludes_phase
complete_preludes_phase(g) ==
    IF ~all_players_played_preludes(g)
    THEN R(g, "Not all players have played their preludes")
    ELSE LET g1 == [g EXCEPT !.phase = "Action"]
         IN  R(IF Len(g1.players) > 0 THEN [g1 EXCEPT !.active_player_id = <<1>>]
               ELSE g1, Ok)

(***************************************************************************)
(* Draft (game/draft.rs).                                                  *)
(***************************************************************************)
DraftType == {"Initial", "Standard", "Prelude"}

\* Game::draw_draft_cards
draw_draft_cards(draft_type) ==
    CASE draft_type = "Initial" -> SubSeq(ProjectCardIds, 1, INITIAL_DRAFT_CARDS)
      [] draft_type = "Standard" -> SubSeq(ProjectCardIds, 1, STANDARD_DRAFT_CARDS)
      [] draft_type = "Prelude" -> PreludeCardIds

\* get_pass_direction with the parity test of the Standard type reversed.
get_pass_direction_odd(g, draft_type) ==
    CASE draft_type = "Initial" ->
            IF g.initial_draft_iteration = 2 THEN "Before" ELSE "After"
      [] draft_type = "Standard" ->
            IF g.generation % 2 = 1 THEN "After" ELSE "Before"
      [] draft_type = "Prelude" -> "After"

\* Game::get_pass_direction
get_pass_direction(g, draft_type) ==
    CASE draft_type = "Initial" ->
            IF g.initial_draft_iteration = 2 THEN "Before" ELSE "After"
      [] draft_type = "Standard" ->
            IF g.generation % 2 = 0 THEN "After" ELSE "Before"
      [] draft_type = "Prelude" -> "After"

\* A rotation toward higher seats that hands the first seat its own hand
\* again instead of the last seat's.
RotateHands_first(hands, direction) ==
    LET n == Len(hands)
    IN  IF n = 0 THEN hands
        ELSE IF direction = "After"
             THEN <<hands[1]>> \o SubSeq(hands, 1, n - 1)
             ELSE SubSeq(hands, 2, n) \o <<hands[1]>>

\* The hands of all seats after a rotation in the given direction.
RotateHands(hands, direction) ==
    LET n == Len(hands)
    IN  IF n = 0 THEN hands
        ELSE IF direction = "After"
             THEN <<hands[n]>> \o SubSeq(hands, 1, n - 1)
             ELSE SubSeq(hands, 2, n) \o <<hands[1]>>

\* Game::pass_draft_cards
pass_draft_cards(g, draft_type) ==
    LET hands == RotateHands([i \in Seats(g) |-> g.players[i].draft_hand],
                             get_pass_direction(g, draft_type))
    IN  R([g EXCEPT !.players = [i \in Seats(g) |->
                [g.players[i] EXCEPT !.draft_hand = hands[i],
                                     !.needs_to_draft = TRUE]]], Ok)

\* start_draft dealing new cards in every round.
start_draft_deal(g, draft_type) ==
    IF Len(g.players) = 0 THEN R(g, "Cannot start draft with no players")
    ELSE R([g EXCEPT !.players = [i \in Seats(g) |->
                [g.players[i] EXCEPT !.draft_hand = draw_draft_cards(draft_type),
                                     !.needs_to_draft = TRUE]]], Ok)

\* Game::start_draft
start_draft(g, draft_type) ==
    IF Len(g.players) = 0 THEN R(g, "Cannot start draft with no players")
    ELSE IF g.draft_round = 1
    THEN R([g EXCEPT !.players = [i \in Seats(g) |->
                [g.players[i] EXCEPT !.draft_hand = draw_draft_cards(draft_type),
                                     !.needs_to_draft = TRUE]]], Ok)
    ELSE pass_draft_cards(g, draft_type)

\* Every player's drafted cards appended to the hand (Vec::append empties
\* the source).
DraftedToHand(g) ==
    LET move(p) == [p EXCEPT !.cards_in_hand = @ \o p.drafted_cards,
                             !.drafted_cards = <<>>]
    IN  MapPlayers(g, move)

\* end_draft_iteration leaving the Initial draft after its first iteration.
end_draft_iteration_once(g, draft_type) ==
    IF draft_type = "Initial"
    THEN LET g1 == [g EXCEPT !.initial_draft_iteration = @ + 1,
                             !.draft_round = 1]
         IN  IF g1.initial_draft_iteration = 2
             THEN R([DraftedToHand(g1) EXCEPT !.phase = "Research"], Ok)
             ELSE R(g1, "Invalid initial draft iteration")
    ELSE R([DraftedToHand(g) EXCEPT !.phase = "Research"], Ok)

\* Game::end_draft_iteration
end_draft_iteration(g, draft_type) ==
    IF draft_type = "Initial"
    THEN LET g1 == [g EXCEPT !.initial_draft_iteration = @ + 1,
                             !.draft_round = 1]
         IN  IF g1.initial_draft_iteration = 2
             THEN LET d == start_draft(g1, "Initial")
                  IN  IF d.ret # Ok THEN R(g1, d.ret) ELSE R(d.g, Ok)
             ELSE IF g1.initial_draft_iteration = 3
             THEN R([DraftedToHand(g1) EXCEPT !.phase = "Research"], Ok)
             ELSE R(g1, "Invalid initial draft iteration")
    ELSE R([DraftedToHand(g) EXCEPT !.phase = "Research"], Ok)

\* Game::cards_to_keep
cards_to_keep(draft_type) ==
    CASE draft_type = "Initial" -> 1
      [] draft_type = "Standard" -> 1
      [] draft_type = "Prelude" -> 1

\* Game::get_player_before: the seat before s, the last seat before the first.
get_player_before(g, s) == IF s = 1 THEN Len(g.players) ELSE s - 1

\* Game::get_player_after: the seat after s, the first seat after the last.
get_player_after(g, s) == IF s = Len(g.players) THEN 1 ELSE s + 1

\* finish_draft_round taking the hand of the neighbour on the leading edge.
finish_draft_round_leading(g, draft_type) ==
    LET direction == get_pass_direction(g, draft_type)
        source(s) == IF direction = "After" THEN get_player_after(g, s)
                     ELSE get_player_before(g, s)
    IN  R([g EXCEPT !.players = [s \in Seats(g) |->
                [g.players[s] EXCEPT
                    !.drafted_cards = @ \o g.players[source(s)].draft_hand,
                    !.needs_to_draft = FALSE,
                    !.draft_hand = <<>>]]], Ok)

\* Game::finish_draft_round: every player takes the whole remaining hand of
\* the neighbour the cards come from, then every hand is cleared.
finish_draft_round(g, draft_type) ==
    LET direction == get_pass_direction(g, draft_type)
        source(s) == IF direction = "After" THEN get_player_before(g, s)
                     ELSE get_player_after(g, s)
    IN  R([g EXCEPT !.players = [s \in Seats(g) |->
                [g.players[s] EXCEPT
                    !.drafted_cards = @ \o g.players[source(s)].draft_hand,
                    !.needs_to_draft = FALSE,
                    !.draft_hand = <<>>]]], Ok)

\* The message of the selection-count check.
ExpectedCardsText(n) ==
    CASE n = 0 -> "Expected 1 cards, got 0"
      [] n = 2 -> "Expected 1 cards, got 2"

\* The loop that moves the selected cards: push to drafted_cards, retain the
\* other cards of the draft hand.
RECURSIVE MoveSelected(_, _)
MoveSelected(p, cards) ==
    IF cards = <<>> THEN p
    ELSE MoveSelected([p EXCEPT !.drafted_cards = Append(@, Head(cards)),
                                !.draft_hand = Retain(@, Range(@) \ {Head(cards)})],
                      Tail(cards))

\* Game::process_draft_selection
process_draft_selection(g, s, selected_cards, draft_type) ==
    IF Len(selected_cards) # cards_to_keep(draft_type)
    THEN R(g, ExpectedCardsText(Len(selected_cards)))
    ELSE IF ~KnownPlayer(g, s) THEN R(g, "Player not found")
    ELSE IF \E i \in 1..Len(selected_cards) :
                ~Contains(g.players[s].draft_hand, selected_cards[i])
    THEN R(g, "Card not in draft hand")
    ELSE LET moved == [MoveSelected(g.players[s], selected_cards)
                          EXCEPT !.needs_to_draft = FALSE]
             g1 == WithPlayer(g, s, moved)
             all_drafted == ~\E i \in Seats(g1) : g1.players[i].needs_to_draft
             has_remaining_cards ==
                 \E i \in Seats(g1) : Len(g1.players[i].draft_hand) > 1
         IN  IF all_drafted
             THEN IF has_remaining_cards
                  THEN LET g2 == [g1 EXCEPT !.draft_round = @ + 1]
                           d == start_draft(g2, draft_type)
                       IN  IF d.ret # Ok THEN R(g2, d.ret) ELSE R(d.g, "Ok(false)")
                  ELSE LET f == finish_draft_round(g1, draft_type)
                       IN  R(f.g, "Ok(true)")
             ELSE R(g1, "Ok(false)")

(***************************************************************************)
(* Phase machine (game/game.rs).                                           *)
(***************************************************************************)
\* Game::next_phase
next_phase(g) ==
    CASE g.phase = "InitialDrafting" -> R([g EXCEPT !.phase = "Research"], Ok)
      [] g.phase = "Research" ->
            R([g EXCEPT !.phase = IF g.generation = 1 /\ g.prelude
                                  THEN "Preludes" ELSE "Action"], Ok)
      [] g.phase = "Preludes" -> R([g EXCEPT !.phase = "Action"], Ok)
      [] g.phase = "Drafting" -> R([g EXCEPT !.phase = "Research"], Ok)
      [] g.phase = "Action" ->
            R(g, "Action phase should be ended via end_action_phase() when all players pass")
      [] g.phase = "Production" ->
            R([g EXCEPT !.phase = IF g.venus_next THEN "Solar"
                                  ELSE "Intergeneration"], Ok)
      [] g.phase = "Solar" -> R([g EXCEPT !.phase = "Intergeneration"], Ok)
      [] g.phase = "Intergeneration" ->
            R([g EXCEPT !.phase = IF g.draft_variant THEN "Drafting"
                                  ELSE "Research"], Ok)
      [] g.phase = "End" -> R(g, "Game has ended")

SOLO_TR_WIN == 63

\* is_mars_terraformed with the Venus track required as well.
is_mars_terraformed_and_venus(g) ==
    /\ GlobalParametersGet(g.global_parameters, "Oceans") >= MAX_OCEANS
    /\ GlobalParametersGet(g.global_parameters, "Oxygen") >= MAX_OXYGEN
    /\ GlobalParametersGet(g.global_parameters, "Temperature") >= MAX_TEMPERATURE
    /\ GlobalParametersGet(g.global_parameters, "Venus") >= MAX_VENUS

\* Game::is_mars_terraformed
is_mars_terraformed(g) ==
    /\ GlobalParametersGet(g.global_parameters, "Oceans") >= MAX_OCEANS
    /\ GlobalParametersGet(g.global_parameters, "Oxygen") >= MAX_OXYGEN
    /\ GlobalParametersGet(g.global_parameters, "Temperature") >= MAX_TEMPERATURE

\* check_win_conditions with the rating win open to every player count.
check_win_conditions_any_mode(g) ==
    IF Len(g.players) > 0 /\ g.players[1].terraform_rating >= SOLO_TR_WIN
    THEN "SoloTr63"
    ELSE IF /\ GlobalParametersGet(g.global_parameters, "Oceans") >= MAX_OCEANS
            /\ GlobalParametersGet(g.global_parameters, "Oxygen") >= MAX_OXYGEN
            /\ GlobalParametersGet(g.global_parameters, "Temperature")
                   >= MAX_TEMPERATURE
            /\ (g.venus_next =>
                   GlobalParametersGet(g.global_parameters, "Venus") >= MAX_VENUS)
         THEN "Terraformed"
         ELSE "None"

\* Game::check_win_conditions: "None" or the win condition.
check_win_conditions(g) ==
    IF g.solo_mode /\ Len(g.players) > 0
       /\ g.players[1].terraform_rating >= SOLO_TR_WIN
    THEN "SoloTr63"
    ELSE LET venus_maxed ==
                 IF g.venus_next
                 THEN GlobalParametersGet(g.global_parameters, "Venus") >= MAX_VENUS
                 ELSE TRUE
         IN  IF /\ GlobalParametersGet(g.global_parameters, "Oceans") >= MAX_OCEANS
                /\ GlobalParametersGet(g.global_parameters, "Oxygen") >= MAX_OXYGEN
                /\ GlobalParametersGet(g.global_parameters, "Temperature")
                       >= MAX_TEMPERATURE
                /\ venus_maxed
             THEN "Terraformed"
             ELSE "None"

\* Game::complete_intergeneration_phase
complete_intergeneration_phase(g) ==
    IF g.phase # "Intergeneration" THEN R(g, "Not in intergeneration phase")
    ELSE LET g1 == [g EXCEPT !.generation = @ + 1]
         IN  IF g1.draft_variant THEN R([g1 EXCEPT !.phase = "Drafting"], Ok)
             ELSE LET s == start_research_phase([g1 EXCEPT !.phase = "Research"])
                  IN  R(s.g, s.ret)

\* Game::increment_generation
increment_generation(g) ==
    LET clear(p) == [p EXCEPT !.draft_hand = <<>>, !.drafted_cards = <<>>,
                              !.needs_to_draft = FALSE]
    IN  [MapPlayers(reset_passed_players([g EXCEPT !.generation = @ + 1]), clear)
            EXCEPT !.draft_round = 1]

\* Game::execute_intergeneration_phase
execute_intergeneration_phase(g) ==
    IF g.phase # "Intergeneration" THEN R(g, "Not in intergeneration phase")
    ELSE IF check_win_conditions(g) # "None"
    THEN R([g EXCEPT !.phase = "End"], check_win_conditions(g))
    ELSE LET g1 == increment_generation(g)
         IN  IF check_win_conditions(g1) # "None"
             THEN R([g1 EXCEPT !.phase = "End"], check_win_conditions(g1))
             ELSE LET n == next_phase(g1)
                  IN  IF n.ret # Ok THEN R(g1, n.ret) ELSE R(n.g, "Ok(None)")

\* Game::execute_solar_phase
execute_solar_phase(g) ==
    IF g.phase # "Solar" THEN R(g, "Not in solar phase")
    ELSE IF ~g.venus_next
    THEN R(g, "Solar phase is only available when Venus Next expansion is enabled")
    ELSE IF is_mars_terraformed(g) THEN R([g EXCEPT !.phase = "End"], "Terraformed")
    ELSE LET n == next_phase(g)
         IN  IF n.ret # Ok THEN R(g, n.ret) ELSE R(n.g, "Ok(None)")

\* The loop body with the energy converted after the production was added.
ProducePlayer_after(p) ==
    LET r == p.resources
        prod == p.production
        mc1 == IF prod.megacredits >= 0
               THEN r.megacredits + prod.megacredits + p.terraform_rating
               ELSE SaturatingSub(r.megacredits + p.terraform_rating,
                                  0 - prod.megacredits)
    IN  [p EXCEPT !.resources =
            [megacredits |-> mc1,
             steel |-> r.steel + prod.steel,
             titanium |-> r.titanium + prod.titanium,
             plants |-> r.plants + prod.plants,
             energy |-> 0,
             heat |-> r.heat + r.energy + prod.energy + prod.heat]]

\* The production of one player (the loop body of execute_production_phase).
ProducePlayer(p) ==
    LET r == p.resources
        prod == p.production
        heat1 == IF r.energy > 0 THEN r.heat + r.energy ELSE r.heat
        mc1 == IF prod.megacredits >= 0
               THEN r.megacredits + prod.megacredits + p.terraform_rating
               ELSE SaturatingSub(r.megacredits + p.terraform_rating,
                                  0 - prod.megacredits)
    IN  [p EXCEPT !.resources =
            [megacredits |-> mc1,
             steel |-> r.steel + prod.steel,
             titanium |-> r.titanium + prod.titanium,
             plants |-> r.plants + prod.plants,
             energy |-> prod.energy,
             heat |-> heat1 + prod.heat]]

\* Game::execute_production_phase
execute_production_phase(g) ==
    IF g.phase # "Production" THEN R(g, "Not in production phase")
    ELSE R(MapPlayers(g, ProducePlayer), Ok)

\* Game::complete_production_phase
complete_production_phase(g) ==
    LET e == execute_production_phase(g)
    IN  IF e.ret # Ok THEN R(g, e.ret)
        ELSE LET n == next_phase(e.g)
             IN  IF n.ret # Ok THEN R(e.g, n.ret) ELSE R(n.g, Ok)

\* A call made with `?`: its error is returned from where the game then is,
\* its success is answered with `yes`.
Try(r, yes) == IF r.ret \in {Ok, "Ok(None)"} THEN R(r.g, yes) ELSE r

\* Game::try_advance_phase
try_advance_phase(g) ==
    CASE g.phase = "InitialDrafting" -> Try(next_phase(g), "Ok(true)")
      [] g.phase = "Research" ->
            IF all_players_research_complete(g)
            THEN Try(complete_research_phase(g), "Ok(true)")
            ELSE R(g, "Ok(false)")
      [] g.phase = "Preludes" ->
            IF all_players_played_preludes(g)
            THEN Try(complete_preludes_phase(g), "Ok(true)")
            ELSE R(g, "Ok(false)")
      [] g.phase = "Action" -> R(g, "Ok(false)")
      [] g.phase = "Production" -> Try(complete_production_phase(g), "Ok(true)")
      [] g.phase = "Solar" ->
            LET e == execute_solar_phase(g)
            IN  IF e.ret \in {"Ok(None)", "Terraformed"} THEN R(e.g, "Ok(true)") ELSE e
      [] g.phase = "Intergeneration" ->
            Try(complete_intergeneration_phase(g), "Ok(true)")
      [] g.phase = "Drafting" -> R(g, "Ok(false)")
      [] g.phase = "End" -> R(g, "Ok(false)")

(***************************************************************************)
(* Deferred actions (deferred/priority.rs, deferred_action.rs, common.rs). *)
(*                                                                         *)
(* A deferred action is a record                                           *)
(*   kind      which implementation of the DeferredAction trait it is      *)
(*   priority  the rank a SimpleDeferredAction was built with              *)
(*   player_id, amount, resource   the data of the common actions          *)
(*   script    what the closure of a SimpleDeferredAction returns on its   *)
(*             successive executions (the last entry repeats)              *)
(*   spawn     the rank of an action the closure defers on the game the    *)
(*             first time it runs (Option)                                 *)
(***************************************************************************)
Priority == {"Cost", "DrawCards", "PlaceOceanTile", "Default",
             "GainResourceOrProduction", "LoseResourceOrProduction",
             "DiscardCards", "BackOfTheLine"}

\* Priority::value
PriorityValue(p) ==
    CASE p = "Cost" -> 0
      [] p = "DrawCards" -> 10
      [] p = "PlaceOceanTile" -> 20
      [] p = "Default" -> 50
      [] p = "GainResourceOrProduction" -> 60
      [] p = "LoseResourceOrProduction" -> 70
      [] p = "DiscardCards" -> 80
      [] p = "BackOfTheLine" -> 100

DeferredActionResult == {"Completed", "NeedsInput", "Remove"}

\* SimpleDeferredAction::new with a closure that behaves as `script` and
\* `spawn` say.
SimpleDeferredAction(player_id, priority, script, spawn) ==
    [kind |-> "Simple", priority |-> priority, player_id |-> player_id,
     amount |-> 0, resource |-> "Megacredits", script |-> script, spawn |-> spawn]

\* SelectPaymentDeferred::new
SelectPaymentDeferred(player_id, amount) ==
    [kind |-> "SelectPayment", priority |-> "Cost", player_id |-> player_id,
     amount |-> amount, resource |-> "Megacredits", script |-> <<>>, spawn |-> <<>>]

\* GainResourcesDeferred::new
GainResourcesDeferred(player_id, resource, amount) ==
    [kind |-> "GainResources", priority |-> "GainResourceOrProduction",
     player_id |-> player_id, amount |-> amount, resource |-> resource,
     script |-> <<>>, spawn |-> <<>>]

\* PlaceTileDeferred::new
PlaceTileDeferred(player_id) ==
    [kind |-> "PlaceTile", priority |-> "Default", player_id |-> player_id,
     amount |-> 0, resource |-> "Megacredits", script |-> <<>>, spawn |-> <<>>]

\* DrawCardsDeferred::new
DrawCardsDeferred(player_id, count) ==
    [kind |-> "DrawCards", priority |-> "DrawCards", player_id |-> player_id,
     amount |-> count, resource |-> "Megacredits", script |-> <<>>, spawn |-> <<>>]

\* DeferredAction::priority of each implementation
ActionPriority(action) ==
    CASE action.kind = "SelectPayment" -> "Cost"
      [] action.kind = "GainResources" -> "GainResourceOrProduction"
      [] action.kind = "PlaceTile" -> "Default"
      [] action.kind = "DrawCards" -> "DrawCards"
      [] action.kind = "Simple" -> action.priority

\* Resources::add
ResourcesAdd(r, resource, amount) ==
    CASE resource = "Megacredits" -> [r EXCEPT !.megacredits = @ + amount]
      [] resource = "Steel" -> [r EXCEPT !.steel = @ + amount]
      [] resource = "Titanium" -> [r EXCEPT !.titanium = @ + amount]
      [] resource = "Plants" -> [r EXCEPT !.plants = @ + amount]
      [] resource = "Energy" -> [r EXCEPT !.energy = @ + amount]
      [] resource = "Heat" -> [r EXCEPT !.heat = @ + amount]

\* Resources::subtract
ResourcesSubtract(r, resource, amount) ==
    CASE resource = "Megacredits" -> [r EXCEPT !.megacredits = SaturatingSub(@, amount)]
      [] resource = "Steel" -> [r EXCEPT !.steel = SaturatingSub(@, amount)]
      [] resource = "Titanium" -> [r EXCEPT !.titanium = SaturatingSub(@, amount)]
      [] resource = "Plants" -> [r EXCEPT !.plants = SaturatingSub(@, amount)]
      [] resource = "Energy" -> [r EXCEPT !.energy = SaturatingSub(@, amount)]
      [] resource = "Heat" -> [r EXCEPT !.heat = SaturatingSub(@, amount)]

DrawnCardIds == <<"drawn_card_0", "drawn_card_1">>

(***************************************************************************)
(* The queue (deferred/queue.rs).  An entry is [action, insertion_order].  *)
(***************************************************************************)
\* QueueEntry::cmp(a, b) = Less
EntryLess(a, b) ==
    LET pa == PriorityValue(ActionPriority(a.action))
        pb == PriorityValue(ActionPriority(b.action))
    IN  IF pa # pb THEN pa < pb ELSE a.insertion_order < b.insertion_order

\* The queue is ordered by QueueEntry::cmp.
IsSorted(queue) ==
    \A i, j \in 1..Len(queue) : i < j => EntryLess(queue[i], queue[j])

\* The index binary_search_by answers for an entry that is not in the queue.
\* Where the entries below the new one form a prefix of the queue, it is the
\* length of that prefix.  Elsewhere the answer of a binary search is
\* unspecified: it is the position `pick` (at most the queue's length).
InsertPosition(queue, entry, pick) ==
    LET below == {i \in 1..Len(queue) : EntryLess(queue[i], entry)}
    IN  IF below = 1..Cardinality(below) THEN Cardinality(below)
        ELSE Min(pick, Len(queue))

\* VecDeque::insert(pos, entry), pos counted from 0
InsertAt(queue, pos, entry) ==
    SubSeq(queue, 1, pos) \o <<entry>> \o SubSeq(queue, pos + 1, Len(queue))

\* DeferredActionQueue::push
Push(q, action, pick) ==
    LET entry == [action |-> action, insertion_order |-> q.insertion_counter]
    IN  [queue |-> InsertAt(q.queue, InsertPosition(q.queue, entry, pick), entry),
         insertion_counter |-> q.insertion_counter + 1]

\* DeferredActionQueue::is_empty
IsEmpty(q) == Len(q.queue) = 0

\* DeferredActionQueue::next_priority (Option)
next_priority(q) ==
    IF IsEmpty(q) THEN <<>> ELSE <<ActionPriority(q.queue[1].action)>>

\* DeferredActionQueue::pop_next_action: the front entry leaves the queue.
pop_next_action(q) ==
    [q |-> [q EXCEPT !.queue = Tail(@)], entry |-> Head(q.queue)]

\* DeferredActionQueue::push_front_action: the entry returns to the very
\* front.
push_front_action(q, entry) == [q EXCEPT !.queue = <<entry>> \o @]

\* Game::defer
defer(g, action, pick) ==
    [g EXCEPT !.deferred_actions = Push(@, action, pick)]

\* Game::has_deferred_actions
has_deferred_actions(g) == ~IsEmpty(g.deferred_actions)

(***************************************************************************)
(* DeferredAction::execute: [g |-> game after, result |-> the              *)
(* DeferredActionResult or "Err", action |-> the action after (it is       *)
(* executed through &mut self)].                                           *)
(***************************************************************************)
X(g, result, action) == [g |-> g, result |-> result, action |-> action]

\* SelectPaymentDeferred::execute
SelectPaymentExecute(action, g) ==
    IF ~KnownPlayer(g, action.player_id) THEN X(g, "Err", action)
    ELSE IF action.amount = 0 THEN X(g, "Completed", action)
    ELSE LET p == g.players[action.player_id]
         IN  IF p.resources.megacredits >= action.amount
             THEN X(WithPlayer(g, action.player_id,
                      [p EXCEPT !.resources =
                          ResourcesSubtract(@, "Megacredits", action.amount)]),
                    "Completed", action)
             ELSE X(g, "NeedsInput", action)

\* GainResourcesDeferred::execute
GainResourcesExecute(action, g) ==
    IF ~KnownPlayer(g, action.player_id) THEN X(g, "Err", action)
    ELSE X(WithPlayer(g, action.player_id,
             [g.players[action.player_id] EXCEPT !.resources =
                 ResourcesAdd(@, action.resource, action.amount)]),
           "Completed", action)

\* PlaceTileDeferred::execute
PlaceTileExecute(action, g) == X(g, "NeedsInput", action)

\* DrawCardsDeferred::execute
DrawCardsExecute(action, g) ==
    IF ~KnownPlayer(g, action.player_id) THEN X(g, "Err", action)
    ELSE X(WithPlayer(g, action.player_id,
             [g.players[action.player_id] EXCEPT !.cards_in_hand =
                 @ \o SubSeq(DrawnCardIds, 1, action.amount)]),
           "Completed", action)

\* SimpleDeferredAction::execute: the closure runs on the game.
SimpleExecute(action, g, pick) ==
    LET g1 == IF action.spawn = <<>> THEN g
              ELSE defer(g, SimpleDeferredAction(action.player_id, action.spawn[1],
                                                 <<"Completed">>, <<>>), pick)
        after == [action EXCEPT !.spawn = <<>>,
                                !.script = IF Len(@) > 1 THEN Tail(@) ELSE @]
    IN  X(g1, Head(action.script), after)

\* DeferredAction::execute
Execute(action, g, pick) ==
    CASE action.kind = "SelectPayment" -> SelectPaymentExecute(action, g)
      [] action.kind = "GainResources" -> GainResourcesExecute(action, g)
      [] action.kind = "PlaceTile" -> PlaceTileExecute(action, g)
      [] action.kind = "DrawCards" -> DrawCardsExecute(action, g)
      [] action.kind = "Simple" -> SimpleExecute(action, g, pick)

\* What one execution leaves in the log: which entry of which queue ran,
\* its rank, what it returned, the entries that stood behind it, and how many
\* entries it pushed onto that queue while it ran.
Executed(qname, entry, result, behind, pushed) ==
    [q |-> qname, order |-> entry.insertion_order,
     priority |-> ActionPriority(entry.action), result |-> result,
     behind |-> {e.insertion_order : e \in Range(behind)}, pushed |-> pushed]

\* A faulty error text: the one execute_action returns without an active
\* player.
NEEDS_INPUT_ERROR_reused == "No active player"

NEEDS_INPUT_ERROR == "Deferred action needs player input"

\* Game::process_deferred_actions:
\* [g |-> game after, ret |-> value returned, log |-> the executions made].
RECURSIVE process_deferred_actions(_, _)
process_deferred_actions(g, pick) ==
    IF IsEmpty(g.deferred_actions) THEN [g |-> g, ret |-> Ok, log |-> <<>>]
    ELSE LET Handle(popped, x) ==
                 LET ran == Executed("game", popped.entry, x.result, popped.q.queue,
                                     x.g.deferred_actions.insertion_counter
                                         - popped.q.insertion_counter)
                 IN  IF x.result = "NeedsInput"
                     THEN [g |-> [x.g EXCEPT !.deferred_actions =
                                     push_front_action(@,
                                         [popped.entry EXCEPT !.action = x.action])],
                           ret |-> NEEDS_INPUT_ERROR,
                           log |-> <<ran>>]
                     ELSE [process_deferred_actions(x.g, pick)
                              EXCEPT !.log = <<ran>> \o @]
             Run(popped) ==
                 Handle(popped, Execute(popped.entry.action,
                                        [g EXCEPT !.deferred_actions = popped.q], pick))
         IN  Run(pop_next_action(g.deferred_actions))

\* A faulty execute_next: an action that needs input is not put back.
execute_next_drop(q, g, pick) ==
    IF IsEmpty(q) THEN [q |-> q, g |-> g, ret |-> "None", log |-> <<>>]
    ELSE LET entry == Head(q.queue)
             popped == [q EXCEPT !.queue = Tail(@)]
             Handle(x) ==
                 [q |-> popped, g |-> x.g, ret |-> x.result,
                  log |-> <<Executed("queue", entry, x.result, popped.queue, 0)>>]
         IN  Handle(Execute(entry.action, g, pick))

\* DeferredActionQueue::execute_next on a queue of its own, against game g:
\* [q |-> queue after, g |-> game after, ret |-> "None" or the result,
\*  log |-> the execution made].
execute_next(q, g, pick) ==
    IF IsEmpty(q) THEN [q |-> q, g |-> g, ret |-> "None", log |-> <<>>]
    ELSE LET entry == Head(q.queue)
             popped == [q EXCEPT !.queue = Tail(@)]
             Handle(x) ==
                 [q |-> IF x.result = "NeedsInput"
                        THEN [popped EXCEPT !.queue =
                                 <<[entry EXCEPT !.action = x.action]>> \o @]
                        ELSE popped,
                  g |-> x.g, ret |-> x.result,
                  log |-> <<Executed("queue", entry, x.result, popped.queue, 0)>>]
         IN  Handle(Execute(entry.action, g, pick))

RECURSIVE execute_all(_, _, _)

\* A faulty execute_all: it stops at an action that fails.
execute_all_stop(q, g, pick) ==
    IF IsEmpty(q) THEN [q |-> q, g |-> g, ret |-> 0, log |-> <<>>]
    ELSE LET Handle(n) ==
                 IF n.ret = "NeedsInput" THEN [n EXCEPT !.ret = 0]
                 ELSE IF n.ret = "Err" THEN [n EXCEPT !.ret = 1]
                 ELSE [execute_all(n.q, n.g, pick)
                          EXCEPT !.ret = @ + 1, !.log = n.log \o @]
         IN  Handle(execute_next(q, g, pick))

\* DeferredActionQueue::execute_all: ret is the number of actions executed.
execute_all(q, g, pick) ==
    IF IsEmpty(q) THEN [q |-> q, g |-> g, ret |-> 0, log |-> <<>>]
    ELSE LET Handle(n) ==
                 IF n.ret = "NeedsInput" THEN [n EXCEPT !.ret = 0]
                 ELSE [execute_all(n.q, n.g, pick)
                          EXCEPT !.ret = @ + 1, !.log = n.log \o @]
         IN  Handle(execute_next(q, g, pick))

(***************************************************************************)
(* Actions (actions/action.rs, action_executor.rs, standard_projects.rs,   *)
(* standard_actions.rs).  An action is a record                            *)
(*   kind          "Pass", "ConvertPlants", "ConvertHeat",                 *)
(*                 "StandardProject"                                       *)
(*   project_type  the StandardProjectType                                 *)
(*   payment       the M-euro amount of Payment::with_megacredits          *)
(*   card_ids      StandardProjectParams.card_ids                          *)
(***************************************************************************)
Pass == [kind |-> "Pass", project_type |-> "None", payment |-> 0, card_ids |-> <<>>]
ConvertPlants ==
    [kind |-> "ConvertPlants", project_type |-> "None", payment |-> 0, card_ids |-> <<>>]
ConvertHeat ==
    [kind |-> "ConvertHeat", project_type |-> "None", payment |-> 0, card_ids |-> <<>>]
StandardProject(project_type, amount, card_ids) ==
    [kind |-> "StandardProject", project_type |-> project_type,
     payment |-> amount, card_ids |-> card_ids]

\* Action::ClaimMilestone and Action::FundAward carry the id they name.
ClaimMilestone(milestone_id, amount) ==
    [kind |-> "ClaimMilestone", project_type |-> "None", payment |-> amount,
     card_ids |-> <<>>, id |-> milestone_id]
FundAward(award_id, amount) ==
    [kind |-> "FundAward", project_type |-> "None", payment |-> amount,
     card_ids |-> <<>>, id |-> award_id]

\* A faulty is_pass: no action is taken for a pass.
is_pass_never(action) == FALSE

\* Action::is_pass
is_pass(action) == action.kind = "Pass"

CONVERT_COST == 8

\* StandardProjects::cost
StandardProjectCost(project_type) ==
    CASE project_type = "SellPatents" -> 0
      [] project_type = "PowerPlant" -> 11
      [] project_type = "Asteroid" -> 14
      [] project_type = "Aquifer" -> 18
      [] project_type = "Greenery" -> 23
      [] project_type = "City" -> 25

\* StandardProjects::can_execute
StandardProjectsCanExecute(project_type, p, card_ids) ==
    IF project_type = "SellPatents"
    THEN IF card_ids = <<>>
         THEN "Sell Patents requires at least one card to discard"
         ELSE IF \E i \in 1..Len(card_ids) : ~Contains(p.cards_in_hand, card_ids[i])
         THEN "Card not in hand"
         ELSE Ok
    ELSE Ok

\* ActionExecutor::validate_payment for Payment::with_megacredits(amount)
validate_payment(amount, p) ==
    IF p.resources.megacredits < amount THEN "Insufficient megacredits" ELSE Ok

\* ActionExecutor::validate_payment_cost
validate_payment_cost(amount, p, required_mc) ==
    IF amount < required_mc THEN "Insufficient payment"
    ELSE validate_payment(amount, p)

\* StandardActions::can_convert_plants
can_convert_plants(p) ==
    IF p.resources.plants < CONVERT_COST THEN "Convert Plants requires 8 plants" ELSE Ok

\* StandardActions::can_convert_heat
can_convert_heat(p) ==
    IF p.resources.heat < CONVERT_COST THEN "Convert Heat requires 8 heat" ELSE Ok

\* Iterator::find on the name: the first milestone or award so named.
FindByName(list, name) ==
    list[CHOOSE i \in 1..Len(list) :
            list[i].name = name /\ \A j \in 1..(i - 1) : list[j].name # name]

\* can_execute without the already-claimed and already-funded checks.
ActionExecutorCanExecute_again(action, g, s) ==
    IF ~KnownPlayer(g, s) THEN "Player not found"
    ELSE LET p == g.players[s]
         IN  CASE action.kind = "StandardProject" ->
                    LET c == StandardProjectsCanExecute(action.project_type, p,
                                                        action.card_ids)
                    IN  IF c # Ok THEN c
                        ELSE validate_payment_cost(action.payment, p,
                                 StandardProjectCost(action.project_type))
               [] action.kind = "Pass" -> Ok
               [] action.kind = "ConvertPlants" -> can_convert_plants(p)
               [] action.kind = "ConvertHeat" -> can_convert_heat(p)
               [] action.kind = "FundAward" ->
                    IF ~\E i \in 1..Len(g.awards) : g.awards[i].name = action.id
                    THEN "Award not found"
                    ELSE validate_payment_cost(action.payment, p,
                             FindByName(g.awards, action.id).cost)
               [] action.kind = "ClaimMilestone" ->
                    IF ~\E i \in 1..Len(g.milestones) : g.milestones[i].name = action.id
                    THEN "Milestone not found"
                    ELSE validate_payment_cost(action.payment, p,
                             FindByName(g.milestones, action.id).cost)

\* ActionExecutor::can_execute
ActionExecutorCanExecute(action, g, s) ==
    IF ~KnownPlayer(g, s) THEN "Player not found"
    ELSE LET p == g.players[s]
         IN  CASE action.kind = "StandardProject" ->
                    LET c == StandardProjectsCanExecute(action.project_type, p,
                                                        action.card_ids)
                    IN  IF c # Ok THEN c
                        ELSE validate_payment_cost(action.payment, p,
                                 StandardProjectCost(action.project_type))
               [] action.kind = "Pass" -> Ok
               [] action.kind = "ConvertPlants" -> can_convert_plants(p)
               [] action.kind = "ConvertHeat" -> can_convert_heat(p)
               [] action.kind = "FundAward" ->
                    IF ~\E i \in 1..Len(g.awards) : g.awards[i].name = action.id
                    THEN "Award not found"
                    ELSE IF \E i \in 1..Len(g.funded_awards) :
                                g.funded_awards[i].award_name = action.id
                    THEN "Award already funded"
                    ELSE validate_payment_cost(action.payment, p,
                             FindByName(g.awards, action.id).cost)
               [] action.kind = "ClaimMilestone" ->
                    IF ~\E i \in 1..Len(g.milestones) : g.milestones[i].name = action.id
                    THEN "Milestone not found"
                    ELSE IF \E i \in 1..Len(g.claimed_milestones) :
                                g.claimed_milestones[i].milestone_name = action.id
                    THEN "Milestone already claimed"
                    ELSE validate_payment_cost(action.payment, p,
                             FindByName(g.milestones, action.id).cost)

\* Player::remove_card_from_hand: the first occurrence leaves the hand.
RemoveFirst(hand, card_id) ==
    LET pos == CHOOSE i \in 1..Len(hand) :
                  hand[i] = card_id /\ \A j \in 1..(i - 1) : hand[j] # card_id
    IN  SubSeq(hand, 1, pos - 1) \o SubSeq(hand, pos + 1, Len(hand))

\* The discard loop of Sell Patents: [hand |-> hand after, ok |-> whether
\* every card was found].
RECURSIVE SellCards(_, _)
SellCards(hand, card_ids) ==
    IF card_ids = <<>> THEN [hand |-> hand, ok |-> TRUE]
    ELSE IF ~Contains(hand, Head(card_ids)) THEN [hand |-> hand, ok |-> FALSE]
    ELSE SellCards(RemoveFirst(hand, Head(card_ids)), Tail(card_ids))

\* ActionExecutor::apply_payment for Payment::with_megacredits(amount)
apply_payment(amount, p) ==
    [p EXCEPT !.resources = ResourcesSubtract(@, "Megacredits", amount)]

\* The global parameter a standard project raises by one step (Option):
\* StandardProjects::execute and ActionExecutor::apply_standard_project_effect.
StandardProjectEffect(project_type) ==
    CASE project_type = "Asteroid" -> <<"Temperature">>
      [] project_type = "Aquifer" -> <<"Oceans">>
      [] project_type = "Greenery" -> <<"Oxygen">>
      [] OTHER -> <<>>

\* ActionExecutor::execute, the StandardProject arm after validation
StandardProjectExecute(action, g, s) ==
    LET paid == apply_payment(action.payment, g.players[s])
        g1 == WithPlayer(g, s, paid)
    IN  CASE action.project_type = "SellPatents" ->
               LET sold == SellCards(paid.cards_in_hand, action.card_ids)
                   p1 == [paid EXCEPT !.cards_in_hand = sold.hand]
               IN  IF ~sold.ok THEN R(WithPlayer(g, s, p1), "Card not in hand")
                   ELSE R(WithPlayer(g, s,
                            [p1 EXCEPT !.resources =
                                ResourcesAdd(@, "Megacredits", Len(action.card_ids))]),
                          Ok)
          [] action.project_type = "PowerPlant" ->
               R(WithPlayer(g, s, [paid EXCEPT !.production.energy = @ + 1]), Ok)
          [] OTHER ->
               LET effect == StandardProjectEffect(action.project_type)
               IN  IF effect = <<>> THEN R(g1, Ok)
                   ELSE R([g1 EXCEPT !.global_parameters =
                              GlobalParametersIncrease(@, effect[1], 1).gp], Ok)

\* ActionExecutor::execute
ActionExecutorExecute(action, g, s) ==
    LET c == ActionExecutorCanExecute(action, g, s)
    IN  IF c # Ok THEN R(g, c)
        ELSE LET p == g.players[s]
             IN  CASE action.kind = "StandardProject" ->
                        StandardProjectExecute(action, g, s)
                   [] action.kind = "Pass" -> R(g, Ok)
                   [] action.kind = "ConvertPlants" ->
                        R([WithPlayer(g, s,
                              [p EXCEPT !.resources =
                                  ResourcesSubtract(@, "Plants", CONVERT_COST)])
                            EXCEPT !.global_parameters =
                                GlobalParametersIncrease(@, "Oxygen", 1).gp], Ok)
                   [] action.kind = "ConvertHeat" ->
                        R(WithPlayer(g, s,
                            [p EXCEPT !.resources =
                                          ResourcesSubtract(@, "Heat", CONVERT_COST),
                                      !.terraform_rating = @ + 1]), Ok)
                   [] action.kind = "FundAward" ->
                        R([WithPlayer(g, s, apply_payment(action.payment, p))
                            EXCEPT !.funded_awards =
                                Append(@, [player_id |-> s, award_name |-> action.id])],
                          Ok)
                   [] action.kind = "ClaimMilestone" ->
                        R([WithPlayer(g, s, apply_payment(action.payment, p))
                            EXCEPT !.claimed_milestones =
                                Append(@, [player_id |-> s,
                                           milestone_name |-> action.id])],
                          Ok)

ACTION_LIMIT_ERROR == "Action limit reached: players can take at most 2 actions per turn"

ACTIONS_PER_TURN == 2

\* A faulty limit check: one action too many goes through.
action_limit_reached_late(g) == g.actions_taken_this_turn > ACTIONS_PER_TURN

\* The action limit check of execute_action.
action_limit_reached(g) == g.actions_taken_this_turn >= ACTIONS_PER_TURN

\* execute_action draining the deferred queue before it checks the phase.
execute_action_drain_first(g, action, pick) ==
    LET Logged(r, log) == [g |-> r.g, ret |-> r.ret, log |-> log]
        Counted(r, log) ==
            IF r.ret # Ok THEN Logged(r, log)
            ELSE [g |-> [r.g EXCEPT !.actions_taken_this_turn = @ + 1],
                  ret |-> Ok, log |-> log]
        Dispatch(d) ==
            IF g.phase # "Action" THEN [d EXCEPT !.ret = "Not in action phase"]
            ELSE IF d.ret # Ok THEN d
            ELSE IF d.g.active_player_id = <<>>
            THEN [d EXCEPT !.ret = "No active player"]
            ELSE IF is_pass(action) THEN Logged(pass_player(d.g), d.log)
            ELSE IF action_limit_reached(d.g)
            THEN [d EXCEPT !.ret = ACTION_LIMIT_ERROR]
            ELSE Counted(ActionExecutorExecute(action, d.g,
                                               d.g.active_player_id[1]), d.log)
    IN  Dispatch(process_deferred_actions(g, pick))

\* Game::execute_action:
\* [g |-> game after, ret |-> value returned, log |-> the deferred actions
\*  executed by the drain].
execute_action(g, action, pick) ==
    IF g.phase # "Action"
    THEN [g |-> g, ret |-> "Not in action phase", log |-> <<>>]
    ELSE LET Logged(r, log) == [g |-> r.g, ret |-> r.ret, log |-> log]
             Counted(r, log) ==
                 IF r.ret # Ok THEN Logged(r, log)
                 ELSE [g |-> [r.g EXCEPT !.actions_taken_this_turn = @ + 1],
                       ret |-> Ok, log |-> log]
             Dispatch(d) ==
                 IF d.ret # Ok THEN d
                 ELSE IF d.g.active_player_id = <<>>
                 THEN [d EXCEPT !.ret = "No active player"]
                 ELSE IF is_pass(action) THEN Logged(pass_player(d.g), d.log)
                 ELSE IF action_limit_reached(d.g)
                 THEN [d EXCEPT !.ret = ACTION_LIMIT_ERROR]
                 ELSE Counted(ActionExecutorExecute(action, d.g,
                                                    d.g.active_player_id[1]), d.log)
         IN  Dispatch(process_deferred_actions(g, pick))

(***************************************************************************)
(* The step of the model: an operation is applied to the game of the       *)
(* current state, and what it did is recorded.                             *)
(***************************************************************************)
SetGame(g) ==
    /\ players' = g.players
    /\ phase' = g.phase
    /\ generation' = g.generation
    /\ active_player_id' = g.active_player_id
    /\ passed_players' = g.passed_players
    /\ actions_taken_this_turn' = g.actions_taken_this_turn
    /\ global_parameters' = g.global_parameters
    /\ venus_next' = g.venus_next
    /\ prelude' = g.prelude
    /\ draft_variant' = g.draft_variant
    /\ solo_mode' = g.solo_mode
    /\ draft_round' = g.draft_round
    /\ initial_draft_iteration' = g.initial_draft_iteration
    /\ deferred_actions' = g.deferred_actions
    /\ milestones' = g.milestones
    /\ claimed_milestones' = g.claimed_milestones
    /\ awards' = g.awards
    /\ funded_awards' = g.funded_awards

\* The games the model follows: the counters of the code are unbounded.
Bounded(g) ==
    /\ g.generation <= MaxGeneration
    /\ g.initial_draft_iteration <= MaxInitialDraftIteration
    /\ \A s \in Seats(g) :
          /\ g.players[s].resources.megacredits <= MaxMegacredits
          /\ Len(g.players[s].cards_in_hand) <= MaxHand

\* The entries of a log that left their queue.
Finished(log) ==
    {<<log[i].q, log[i].order>> :
        i \in {j \in 1..Len(log) : log[j].result # "NeedsInput"}}

\* The stalled entries after a log: an entry that ran is no longer stalled
\* unless it returned NeedsInput again.
StalledAfter(st, log) ==
    {e \in st : \A i \in 1..Len(log) : <<log[i].q, log[i].order>> # <<e.q, e.order>>}
    \cup {[q |-> log[i].q, order |-> log[i].order] :
            i \in {j \in 1..Len(log) : log[j].result = "NeedsInput"}}

\* A run of Pass actions starts in the state any other operation leaves:
\* ok tells whether that state is in the Action phase with an empty deferred
\* queue, base is its passed set, passes lists who passed since.
RunStart(g) ==
    [ok |-> g.phase = "Action" /\ IsEmpty(g.deferred_actions),
     base |-> g.passed_players, passes |-> <<>>]

RunAfter(name, g) ==
    IF name = <<"execute_action", "Pass">>
    THEN IF Len(run.passes) <= Len(players)
         THEN [run EXCEPT !.passes = @ \o active_player_id]
         ELSE run
    ELSE RunStart(g)

\* The operation `name` took the game to r.g and returned r.ret, executing
\* the deferred actions of `log`; the caller's queue is then cq.
Step(name, r, log, cq) ==
    /\ Bounded(r.g)
    /\ SetGame(r.g)
    /\ caller_queue' = cq
    /\ op' = name
    /\ ret' = r.ret
    /\ drain_log' = log
    /\ done' = done \cup Finished(log)
    /\ stalled' = StalledAfter(stalled, log)
    /\ run' = RunAfter(name, r.g)

\* An operation of the game that drains nothing.
Call(name, r) == \E x \in {r} : Step(name, x, <<>>, caller_queue)

\* The positions an unspecified binary search may answer.
Picks(q) == IF IsSorted(q.queue) THEN {0} ELSE 0..Len(q.queue)

\* The text of a count below twenty, as ret records a returned count.
CountText(n) ==
    <<"0", "1", "2", "3", "4", "5", "6", "7", "8", "9", "10", "11", "12", "13",
      "14", "15", "16", "17", "18", "19">>[n + 1]

(***************************************************************************)
(* Actions: one per public operation.                                      *)
(***************************************************************************)
NextPhase == Call(<<"next_phase">>, next_phase(Game))

TryAdvancePhase == Call(<<"try_advance_phase">>, try_advance_phase(Game))

EndActionPhase == Call(<<"end_action_phase">>, end_action_phase(Game))

StartActionPhase == Call(<<"start_action_phase">>, start_action_phase(Game))

PassPlayer == Call(<<"pass_player">>, pass_player(Game))

StartResearchPhase == Call(<<"start_research_phase">>, start_research_phase(Game))

SelectCorporation ==
    \E s \in Seats(Game) : \E c \in Range(CorporationCardIds) :
        Call(<<"select_corporation">>, select_corporation(Game, s, c))

SelectPreludes ==
    \E s \in Seats(Game) :
        Call(<<"select_preludes">>,
             select_preludes(Game, s, SubSeq(PreludeCardIds, 1, 2)))

CompleteResearchPhase ==
    Call(<<"complete_research_phase">>, complete_research_phase(Game))

StartPreludesPhase == Call(<<"start_preludes_phase">>, start_preludes_phase(Game))

\* Game::play_prelude for the player next_prelude_player names (player 1
\* when it names none), who plays the first prelude card, then the second.
PlayPrelude ==
    \E s \in Range(next_prelude_player(Game) \o
                      (IF next_prelude_player(Game) = <<>> THEN <<1>> ELSE <<>>)) :
        LET first_played == /\ KnownPlayer(Game, s)
                            /\ Contains(players[s].played_cards, PreludeCardIds[1])
        IN  Call(<<"play_prelude">>,
                 play_prelude(Game, s, PreludeCardIds[IF first_played THEN 2 ELSE 1]))

AutoCompleteResearchPhase ==
    Call(<<"auto_complete_research_phase">>, auto_complete_research_phase(Game))

CompletePreludesPhase ==
    Call(<<"complete_preludes_phase">>, complete_preludes_phase(Game))

EndDraftIteration ==
    \E t \in DraftType :
        Call(<<"end_draft_iteration", t>>, end_draft_iteration(Game, t))

ExecuteProductionPhase ==
    Call(<<"execute_production_phase">>, execute_production_phase(Game))

CompleteProductionPhase ==
    Call(<<"complete_production_phase">>, complete_production_phase(Game))

ExecuteSolarPhase == Call(<<"execute_solar_phase">>, execute_solar_phase(Game))

ExecuteIntergenerationPhase ==
    Call(<<"execute_intergeneration_phase">>, execute_intergeneration_phase(Game))

CompleteIntergenerationPhase ==
    Call(<<"complete_intergeneration_phase">>, complete_intergeneration_phase(Game))

\* The order in which the parameters are raised: oceans, oxygen,
\* temperature, Venus.
TerraformOrder == <<"Oceans", "Oxygen", "Temperature", "Venus">>

\* The parameter raised next: the first of the order below its maximum (the
\* last one when all are at their maximum).
TerraformNext(gp) ==
    LET low == {i \in 1..Len(TerraformOrder) :
                  Scale(gp, TerraformOrder[i]) < MaxScale(TerraformOrder[i])}
    IN  IF low = {} THEN {TerraformOrder[Len(TerraformOrder)]}
        ELSE {TerraformOrder[CHOOSE i \in low : \A j \in low : i <= j]}

\* GlobalParameters::increase on the game's track, by as many steps as the
\* track has.
IncreaseGlobalParameter ==
    \E param \in TerraformNext(global_parameters) :
        Call(<<"global_parameters.increase", param>>,
             R([Game EXCEPT !.global_parameters =
                   GlobalParametersIncrease(@, param, MaxScale(param)).gp], Ok))

\* GlobalParameters::increase on the game's track, for any parameter and
\* step count of `steps`; op records both, ret is the number of steps applied.
Increase(steps) ==
    \E param \in GlobalParameter : \E n \in steps :
        \E r \in {GlobalParametersIncrease(global_parameters, param, n)} :
            Call(<<"global_parameters.increase", param, n>>,
                 R([Game EXCEPT !.global_parameters = r.gp], CountText(r.ret)))

\* GlobalParameters::set on the game's track, for any parameter and a value
\* of `values`.
Set(values) ==
    \E param \in GlobalParameter : \E value \in values :
        Call(<<"global_parameters.set", param, value>>,
             R([Game EXCEPT !.global_parameters =
                   GlobalParametersSet(@, param, value)], Ok))

\* GlobalParameters::add on the game's track, for any parameter and an
\* amount of `amounts`.
Add(amounts) ==
    \E param \in GlobalParameter : \E amount \in amounts :
        Call(<<"global_parameters.add", param, amount>>,
             R([Game EXCEPT !.global_parameters =
                   GlobalParametersAdd(@, param, amount)], Ok))

\* An assignment to the public field terraform_rating of the first player.
SetTerraformRating(ratings) ==
    /\ Len(players) >= 1
    /\ \E tr \in ratings :
          Call(<<"terraform_rating">>,
               R(WithPlayer(Game, 1, [players[1] EXCEPT !.terraform_rating = tr]), Ok))

\* Game::check_win_conditions: ret is the win condition, or "None".
CheckWinConditions ==
    Call(<<"check_win_conditions">>, R(Game, check_win_conditions(Game)))

\* Game::next_player
NextPlayer == Call(<<"next_player">>, R(next_player(Game), Ok))

\* Game::execute_action with one of `actions`.
ExecuteAction(actions) ==
    \E action \in actions : \E pick \in Picks(deferred_actions) :
        \E r \in {execute_action(Game, action, pick)} :
            Step(<<"execute_action", action.kind>>, r, r.log, caller_queue)

\* Game::defer with one of `effects`.
Defer(effects) ==
    /\ deferred_actions.insertion_counter + caller_queue.insertion_counter
           < MaxDeferred
    /\ \E action \in effects : \E pick \in Picks(deferred_actions) :
          Call(<<"defer">>, R(defer(Game, action, pick), Ok))

ProcessDeferredActions ==
    \E pick \in Picks(deferred_actions) :
        \E r \in {process_deferred_actions(Game, pick)} :
            Step(<<"process_deferred_actions">>, r, r.log, caller_queue)

\* DeferredActionQueue::push on the caller's queue.
QueuePush(effects) ==
    /\ deferred_actions.insertion_counter + caller_queue.insertion_counter
           < MaxDeferred
    /\ \E action \in effects :
          \E pick \in Picks(caller_queue) :
              Step(<<"queue.push">>, R(Game, Ok), <<>>,
                   Push(caller_queue, action, pick))

QueueExecuteNext ==
    \E pick \in Picks(deferred_actions) :
        \E r \in {execute_next(caller_queue, Game, pick)} :
            Step(<<"queue.execute_next">>, r, r.log, r.q)

QueueExecuteAll ==
    \E pick \in Picks(deferred_actions) :
        \E r \in {execute_all(caller_queue, Game, pick)} :
            Step(<<"queue.execute_all">>, [g |-> r.g, ret |-> CountText(r.ret)],
                 r.log, r.q)

(***************************************************************************)
(* Specifications.                                                         *)
(***************************************************************************)
\* The fields of a session that is g, nothing called yet.
InitSession(g) ==
    /\ players = g.players
    /\ phase = g.phase
    /\ generation = g.generation
    /\ active_player_id = g.active_player_id
    /\ passed_players = g.passed_players
    /\ actions_taken_this_turn = g.actions_taken_this_turn
    /\ global_parameters = g.global_parameters
    /\ venus_next = g.venus_next
    /\ prelude = g.prelude
    /\ draft_variant = g.draft_variant
    /\ solo_mode = g.solo_mode
    /\ draft_round = g.draft_round
    /\ initial_draft_iteration = g.initial_draft_iteration
    /\ deferred_actions = g.deferred_actions
    /\ milestones = g.milestones
    /\ claimed_milestones = g.claimed_milestones
    /\ awards = g.awards
    /\ funded_awards = g.funded_awards
    /\ caller_queue = DeferredActionQueueNew
    /\ op = <<"new">>
    /\ ret = Ok
    /\ drain_log = <<>>
    /\ done = {}
    /\ stalled = {}

InitGame(g) ==
    /\ InitSession(g)
    /\ run = RunStart(g)

\* Every player of g selects the first corporation dealt, from seat s on.
RECURSIVE SelectCorporations(_, _)
SelectCorporations(g, s) ==
    IF s > Len(g.players) THEN g
    ELSE SelectCorporations(select_corporation(g, s, CorporationCardIds[1]).g, s + 1)

\* The game of n players as the first Action phase begins: a new game taken
\* through the initial research, every player holding a corporation.
ActionStart(n) ==
    LET research == next_phase(GameNew(n, FALSE, FALSE, FALSE)).g
        dealt == start_research_phase(research).g
    IN  complete_research_phase(SelectCorporations(dealt, 1)).g

\* The phase machine, from a new game of up to MaxPlayers players, played
\* with all of Venus Next, Prelude and the draft variant or with none.
Init ==
    \E n \in 0..MaxPlayers : \E expansions \in BOOLEAN :
        InitGame(GameNew(n, expansions, expansions, expansions))

PhaseActions == {Pass, ConvertHeat}

Next ==
    \/ NextPhase
    \/ TryAdvancePhase
    \/ EndActionPhase
    \/ PassPlayer
    \/ StartResearchPhase
    \/ AutoCompleteResearchPhase
    \/ CompleteResearchPhase
    \/ PlayPrelude
    \/ CompletePreludesPhase
    \/ EndDraftIteration
    \/ CompleteProductionPhase
    \/ ExecuteSolarPhase
    \/ ExecuteIntergenerationPhase
    \/ CompleteIntergenerationPhase
    \/ ExecuteAction(PhaseActions)

Spec == Init /\ [][Next]_vars

\* The Action phase, from its beginning in the first generation.
InitAction == \E n \in 0..MaxPlayers : InitGame(ActionStart(n))

PlayerActions ==
    {Pass, ConvertHeat,
     StandardProject("Asteroid", StandardProjectCost("Asteroid"), <<>>)}

ActionEffects ==
    {GainResourcesDeferred(1, "Heat", CONVERT_COST),
     SimpleDeferredAction(1, "Default", <<"NeedsInput", "Completed">>, <<>>),
     SimpleDeferredAction(1, "Default", <<"Err">>, <<>>)}

NextAction ==
    \/ ExecuteAction(PlayerActions)
    \/ Defer(ActionEffects)
    \/ ProcessDeferredActions
    \/ StartActionPhase

SpecAction == InitAction /\ [][NextAction]_vars

\* The deferred queues, in the first Action phase of a game.
InitQueue == \E n \in 1..MaxPlayers : InitGame(ActionStart(n))

\* Closures: one per rank and outcome of interest, some deferring another
\* action on the game while they run.
Closures ==
    {SimpleDeferredAction(1, "Cost", <<"Completed">>, <<>>),
     SimpleDeferredAction(1, "BackOfTheLine", <<"Remove">>, <<>>),
     SimpleDeferredAction(1, "Default", <<"Err">>, <<>>),
     SimpleDeferredAction(1, "Default", <<"NeedsInput", "Completed">>, <<"Cost">>),
     SimpleDeferredAction(1, "Default", <<"NeedsInput", "Err">>, <<>>),
     SimpleDeferredAction(1, "Default", <<"Completed">>, <<"BackOfTheLine">>)}

\* The common deferred actions; player 0 is no player of the game.
CommonEffects ==
    {SelectPaymentDeferred(1, 40),
     SelectPaymentDeferred(0, 5),
     GainResourcesDeferred(1, "Plants", CONVERT_COST),
     PlaceTileDeferred(1),
     DrawCardsDeferred(1, 1)}

QueueEffects == Closures \cup CommonEffects

PassOnly == {Pass}

NextQueue ==
    \/ Defer(QueueEffects)
    \/ ProcessDeferredActions
    \/ ExecuteAction(PassOnly)
    \/ QueuePush(Closures)
    \/ QueueExecuteNext
    \/ QueueExecuteAll

SpecQueue == InitQueue /\ [][NextQueue]_vars

\* The game as its first research phase begins: a new game taken out of the
\* initial draft, the research cards dealt.
ResearchStart(n, venus, prel, draft) ==
    start_research_phase(next_phase(GameNew(n, venus, prel, draft)).g).g

\* The game g after GlobalParameters::increase has taken oceans, oxygen and
\* temperature to their maxima (if mars) and Venus to its maximum (if venus).
Raised(g, mars, venus) ==
    LET up(gp, param) == GlobalParametersIncrease(gp, param, MaxScale(param)).gp
        gp1 == IF mars
               THEN up(up(up(g.global_parameters, "Oceans"), "Oxygen"), "Temperature")
               ELSE g.global_parameters
    IN  [g EXCEPT !.global_parameters = IF venus THEN up(gp1, "Venus") ELSE gp1]

\* The phase machine from the first research phase of a game of EndPlayers
\* players in which each of Venus Next, Prelude and the draft variant is
\* chosen on its own, Mars and Venus terraformed or not before play goes on.
InitEnd ==
    \E n \in 1..EndPlayers : \E venus, prel, draft, mars, raised \in BOOLEAN :
        InitGame(Raised(ResearchStart(n, venus, prel, draft), mars, raised))

NextEnd ==
    \/ NextPhase
    \/ TryAdvancePhase
    \/ EndActionPhase
    \/ PassPlayer
    \/ AutoCompleteResearchPhase
    \/ CompleteResearchPhase
    \/ PlayPrelude
    \/ CompletePreludesPhase
    \/ EndDraftIteration
    \/ CompleteProductionPhase
    \/ ExecuteSolarPhase
    \/ ExecuteIntergenerationPhase
    \/ CompleteIntergenerationPhase

SpecEnd == InitEnd /\ [][NextEnd]_vars

\* The win conditions, from a new game with or without Venus Next: any
\* parameter is raised to its maximum, the terraform rating of the first
\* player is written, and the win conditions are evaluated.
InitWin ==
    \E n \in 1..MaxPlayers : \E venus \in BOOLEAN :
        InitGame(GameNew(n, venus, FALSE, FALSE))

FullSteps == {ManySteps}

Ratings == {SOLO_TR_WIN - 1, SOLO_TR_WIN}

NextWin ==
    \/ Increase(FullSteps)
    \/ SetTerraformRating(Ratings)
    \/ CheckWinConditions

SpecWin == InitWin /\ [][NextWin]_vars

\* The turns of the Action phase, from its beginning in the first
\* generation of a game of up to TurnPlayers players.
InitTurn == \E n \in 1..TurnPlayers : InitGame(ActionStart(n))

NextTurn ==
    \/ PassPlayer
    \/ NextPlayer
    \/ ExecuteAction(PlayerActions)

SpecTurn == InitTurn /\ [][NextTurn]_vars

\* The global-parameter track of a new game under increase calls of any
\* parameter, by no step, a few steps or more steps than the track has.
InitParams == InitGame(GameNew(1, TRUE, FALSE, FALSE))

StepCounts == {0, FewSteps, TestSteps, ManySteps}

NextParams == Increase(StepCounts)

SpecParams == InitParams /\ [][NextParams]_vars

\* The global-parameter track of a new game under its three writing
\* operations: values below, inside and above the scales are set, amounts
\* are added and the parameters are raised to their ceiling.
SetValues == {MIN_TEMPERATURE - 1, SomeValue, MAX_VENUS + 1}

AddAmounts == {0 - SomeValue, FewSteps}

NextTrack ==
    \/ Increase(FullSteps)
    \/ Set(SetValues)
    \/ Add(AddAmounts)

SpecTrack == InitParams /\ [][NextTrack]_vars

(***************************************************************************)
(* Properties of the phase machine.                                        *)
(***************************************************************************)
\* The transition table of the phases, and the edges that end the game.
TransitionTable ==
    {<<"InitialDrafting", "Research">>,
     <<"Research", "Preludes">>, <<"Research", "Action">>,
     <<"Preludes", "Action">>,
     <<"Drafting", "Research">>,
     <<"Action", "Production">>,
     <<"Production", "Solar">>, <<"Production", "Intergeneration">>,
     <<"Solar", "Intergeneration">>,
     <<"Intergeneration", "Drafting">>, <<"Intergeneration", "Research">>}

WinEdges == {<<"Solar", "End">>, <<"Intergeneration", "End">>}

\* The public phase operations.
PhaseOps ==
    {"next_phase", "try_advance_phase", "complete_research_phase",
     "complete_preludes_phase", "end_draft_iteration", "pass_player",
     "end_action_phase", "complete_production_phase", "execute_solar_phase",
     "execute_intergeneration_phase", "complete_intergeneration_phase"}

\* C1: every change of the current phase made by the public phase
\* operations is an edge of the transition table or a win edge
\* (Solar -> End, Intergeneration -> End).
C1_PhaseChangesFollowTable ==
    [][(op'[1] \in PhaseOps /\ phase' # phase) =>
          <<phase, phase'>> \in TransitionTable \cup WinEdges]_vars

\* The operations through which a player passes.
PassOps == {<<"pass_player">>, <<"execute_action", "Pass">>}

\* C2: the phase changes from Action to Production only in a step in which
\* every player is in the passed set (the player passing in that step
\* included); next_phase and try_advance_phase called in the Action phase
\* leave the phase alone; end_action_phase returns an error and changes
\* nothing while some player has not passed.
C2_ActionEndsWhenAllPassed ==
    [][/\ (phase = "Action" /\ phase' = "Production") =>
            \A s \in Seats(Game) :
                \/ Contains(passed_players, s)
                \/ op' \in PassOps /\ active_player_id = <<s>>
       /\ (phase = "Action" /\ op' \in {<<"next_phase">>, <<"try_advance_phase">>}) =>
            phase' = "Action"
       /\ (op' = <<"end_action_phase">>
             /\ \E s \in Seats(Game) : ~Contains(passed_players, s)) =>
            ret' # Ok /\ UNCHANGED gameVars]_vars

\* C2 happens: the second of two players has passed and Production began.
C2_Witness ==
    /\ Len(players) = 2
    /\ op \in PassOps
    /\ ret = Ok
    /\ phase = "Production"
    /\ passed_players = <<>>

(***************************************************************************)
(* Properties of the turn scheduler and of execute_action.                 *)
(***************************************************************************)
\* The players who have passed once the run of Pass actions is made: those
\* who had passed when it started and those who passed in it.
RunPassed == Range(run.base) \cup Range(run.passes)

\* What N Pass actions in a row lead to, and fewer than N.
PassRound ==
    /\ Len(run.passes) = Len(players) =>
          phase = "Production" /\ passed_players = <<>>
    /\ Len(run.passes) < Len(players) =>
          phase = "Action" /\ Range(passed_players) = RunPassed

\* C3 as stated: in a game of N >= 1 players in the Action phase with an
\* empty deferred queue, N Pass actions in a row by the successive active
\* players lead to the Production phase with an empty passed set, and fewer
\* than N leave the phase Action and the passed set equal to the players
\* who passed.
C3_PassRoundFromAnyActionState ==
    (Len(players) >= 1 /\ run.ok) => PassRound

\* C3 amended: the same, of a run that starts with an empty passed set.
C3_PassRoundFromEmptyPassedSet ==
    (Len(players) >= 1 /\ run.ok /\ run.base = <<>>) => PassRound

\* C3 happens: both players of a game passed in a row, from an empty passed
\* set.
C3_Witness ==
    /\ Len(players) = 2
    /\ run.ok
    /\ run.base = <<>>
    /\ run.passes = <<1, 2>>
    /\ phase = "Production"

NonPassOps == {<<"execute_action", "ConvertHeat">>,
               <<"execute_action", "ConvertPlants">>,
               <<"execute_action", "StandardProject">>}

\* A non-pass action is submitted in the Action phase when the active player
\* has used the actions of the turn.
ThirdAttempt ==
    /\ op' \in NonPassOps
    /\ phase = "Action"
    /\ active_player_id # <<>>
    /\ actions_taken_this_turn = ACTIONS_PER_TURN

\* The third attempt is refused and changes nothing.
Refused ==
    /\ ret' = ACTION_LIMIT_ERROR
    /\ UNCHANGED <<players, global_parameters, passed_players, active_player_id,
                   actions_taken_this_turn>>

\* C4 as stated: the count of actions taken this turn never exceeds 2, and
\* a third non-pass attempt in a turn returns the action limit error and
\* changes no player ledger, global parameter, passed set, active player or
\* action count.
C4_ThirdAttemptChangesNothing ==
    /\ [](actions_taken_this_turn <= ACTIONS_PER_TURN)
    /\ [][ThirdAttempt => Refused]_vars

\* C4 amended: the same, of a third attempt submitted while the deferred
\* queue is empty.
C4_ThirdAttemptOnEmptyQueue ==
    /\ [](actions_taken_this_turn <= ACTIONS_PER_TURN)
    /\ [][(ThirdAttempt /\ IsEmpty(deferred_actions)) => Refused]_vars

\* C4 happens: a non-pass action was refused for the limit, on an empty
\* queue.
C4_Witness ==
    /\ op \in NonPassOps
    /\ ret = ACTION_LIMIT_ERROR
    /\ actions_taken_this_turn = ACTIONS_PER_TURN
    /\ drain_log = <<>>

\* A Pass is submitted through execute_action in the Action phase while
\* there is an active player.
PassSubmitted ==
    /\ op' = <<"execute_action", "Pass">>
    /\ phase = "Action"
    /\ active_player_id # <<>>

\* The drain of the step stalled on an action that needs input.
Stalls(log) == \E i \in 1..Len(log) : log[i].result = "NeedsInput"

\* C5 as stated: a Pass submitted through execute_action in the Action
\* phase with an active player is always accepted, whatever the number of
\* actions taken this turn.
C5_PassAlwaysAccepted ==
    [][PassSubmitted => ret' = Ok]_vars

\* C5 amended: it is accepted whenever the drain of the deferred queue does
\* not stall.
C5_PassAcceptedUnlessStalled ==
    [][(PassSubmitted /\ ~Stalls(drain_log')) => ret' = Ok]_vars

\* C5 happens: a Pass was accepted after two actions of the turn and a drain.
C5_Witness ==
    /\ op = <<"execute_action", "Pass">>
    /\ ret = Ok
    /\ actions_taken_this_turn = ACTIONS_PER_TURN
    /\ drain_log # <<>>

\* The entries of a queue, by insertion order.
Orders(q) == {q.queue[i].insertion_order : i \in 1..Len(q.queue)}

\* C6: execute_action drains the deferred queue before it dispatches: when
\* the drain does not stall, every entry that was queued has been executed
\* and the queue is empty; when it stalls, execute_action returns the needs
\* input error, which it returns in no other case, and action count, passed
\* set, active player and phase are unchanged.
C6_DrainBeforeDispatch ==
    [][(op'[1] = "execute_action" /\ phase = "Action") =>
          /\ (ret' = NEEDS_INPUT_ERROR) <=> Stalls(drain_log')
          /\ Stalls(drain_log') =>
                UNCHANGED <<actions_taken_this_turn, passed_players,
                            active_player_id, phase>>
          /\ ~Stalls(drain_log') =>
                /\ IsEmpty(deferred_actions')
                /\ Orders(deferred_actions) \subseteq
                       {drain_log'[i].order : i \in 1..Len(drain_log')}]_vars

\* C6 happens: execute_action stalled behind an action it had executed.
C6_Witness ==
    /\ op[1] = "execute_action"
    /\ ret = NEEDS_INPUT_ERROR
    /\ Len(drain_log) >= 2

(***************************************************************************)
(* Properties of the deferred queues.  A step that drains a queue leaves   *)
(* in drain_log the executions it made.                                    *)
(***************************************************************************)
\* The queue an execution was made on, before and after the step.
QueueOf(qname) == IF qname = "game" THEN deferred_actions ELSE caller_queue

QueueOfNext(qname) == IF qname = "game" THEN deferred_actions' ELSE caller_queue'

\* The executions of a log, made on entries that were queued in q.
RECURSIVE OfQueued(_, _)
OfQueued(log, q) ==
    IF log = <<>> THEN <<>>
    ELSE IF Head(log).order \in Orders(q) THEN <<Head(log)>> \o OfQueued(Tail(log), q)
         ELSE OfQueued(Tail(log), q)

\* A log runs in ascending rank, and within a rank in insertion order.
Ascending(log) ==
    \A i, j \in 1..Len(log) :
        i < j =>
            \/ PriorityValue(log[i].priority) < PriorityValue(log[j].priority)
            \/ /\ log[i].priority = log[j].priority
               /\ log[i].order < log[j].order

\* C7: a drain in which every action completes executes the actions that
\* were queued in ascending rank, and actions of one rank in the order in
\* which they were enqueued.
C7_DrainInRankOrder ==
    [][(drain_log' # <<>> /\ \A i \in 1..Len(drain_log') :
                                 drain_log'[i].result = "Completed") =>
          Ascending(OfQueued(drain_log', QueueOf(drain_log'[1].q)))]_vars

\* The entries that stand behind the entry `order` in q.
Behind(q, order) ==
    {q.queue[j].insertion_order :
        j \in {k \in 1..Len(q.queue) :
                 \E i \in 1..(k - 1) : q.queue[i].insertion_order = order}}

\* What holds of the execution i of the drain made by a step, when the
\* results in `resolving` are those that let the entries behind a stalled
\* entry run, and `grown` tells whether the entries an action pushed while
\* it ran count in the length of the queue.
StalledHeadStays(i, resolving, grown) ==
    LET e == drain_log'[i]
    IN  /\ e.result = "NeedsInput" =>
              /\ i = Len(drain_log')
              /\ Len(QueueOfNext(e.q).queue) >= 1
              /\ QueueOfNext(e.q).queue[1].insertion_order = e.order
              /\ Len(QueueOfNext(e.q).queue) =
                     1 + Cardinality(e.behind) + (IF grown THEN e.pushed ELSE 0)
        /\ \A st \in stalled :
              (st.q = e.q /\ e.order \in Behind(QueueOf(e.q), st.order)) =>
                  \E j \in 1..(i - 1) :
                      /\ drain_log'[j].q = st.q
                      /\ drain_log'[j].order = st.order
                      /\ drain_log'[j].result \in resolving

\* C8 as stated: when the action at the head returns NeedsInput, the drain
\* stops, the action is at the head afterwards, the queue is as long as
\* before it was executed, and no action behind it is executed, in this or
\* a later drain, until it has returned Completed or Remove.
C8_StalledHeadBlocks ==
    [][\A i \in 1..Len(drain_log') :
          StalledHeadStays(i, {"Completed", "Remove"}, FALSE)]_vars

\* C8 amended: the queue is longer by the actions the stalled action pushed
\* while it ran, and the actions behind it run once it has returned
\* Completed or Remove or has failed.
C8_StalledHeadBlocksUntilResolved ==
    [][\A i \in 1..Len(drain_log') :
          StalledHeadStays(i, {"Completed", "Remove", "Err"}, TRUE)]_vars

\* C8 happens: a drain stalled on the head, which had an action behind it
\* and pushed another while it ran.
C8_Witness ==
    /\ Len(drain_log) = 1
    /\ drain_log[1].result = "NeedsInput"
    /\ drain_log[1].behind # {}
    /\ drain_log[1].pushed = 1
    /\ [q |-> drain_log[1].q, order |-> drain_log[1].order] \in stalled
    /\ Len(QueueOf(drain_log[1].q).queue) = 3

\* C9: both queues are sorted by rank, then insertion order, in every
\* state.
C9_QueueSorted ==
    IsSorted(deferred_actions.queue) /\ IsSorted(caller_queue.queue)

\* The operations that drain a queue to the end or to a stall.
DrainOps == {<<"process_deferred_actions">>, <<"queue.execute_all">>,
             <<"execute_action", "Pass">>}

\* C10: an entry is executed once in a drain and never after it has left
\* the queue; an action that returns Completed or Remove, or fails, leaves
\* the queue, and the drain goes on to the next entry until the queue is
\* empty or an action needs input; the failure of an action fails neither
\* the drain nor execute_action.
C10_SingleShot ==
    [][/\ \A i \in 1..Len(drain_log') :
             LET e == drain_log'[i]
             IN  /\ <<e.q, e.order>> \notin done
                 /\ \A j \in 1..Len(drain_log') :
                        j # i => <<drain_log'[j].q, drain_log'[j].order>>
                                     # <<e.q, e.order>>
                 /\ e.result # "NeedsInput" =>
                        e.order \notin Orders(QueueOfNext(e.q))
                 /\ i < Len(drain_log') => e.result # "NeedsInput"
       /\ (drain_log' # <<>> /\ op' \in DrainOps /\ ~Stalls(drain_log')) =>
             IsEmpty(QueueOfNext(drain_log'[1].q))
       /\ op' = <<"process_deferred_actions">> =>
             (ret' = Ok <=> ~Stalls(drain_log'))
       /\ op' = <<"queue.execute_all">> =>
             ret' = CountText(Cardinality(Finished(drain_log')))
       /\ (op' = <<"execute_action", "Pass">> /\ phase = "Action"
             /\ ~Stalls(drain_log')) => ret' = Ok]_vars

\* C10 happens: a drain went on after an action failed, and returned Ok.
C10_Witness ==
    /\ op = <<"process_deferred_actions">>
    /\ ret = Ok
    /\ \E i \in 1..Len(drain_log) :
          drain_log[i].result = "Err" /\ i < Len(drain_log)

(***************************************************************************)
(* Properties of the end of the game and of the win conditions.            *)
(***************************************************************************)
\* C11: once the phase is End, no operation changes the phase or the
\* generation: next_phase returns an error, try_advance_phase returns false,
\* and every phase-specific operation leaves the game in End.
C11_EndIsTerminal ==
    [][phase = "End" =>
         /\ phase' = "End"
         /\ generation' = generation
         /\ op'[1] = "next_phase" => ret' = "Game has ended"
         /\ op'[1] = "try_advance_phase" => ret' = "Ok(false)"]_vars

\* The operations that take the game out of the Intergeneration phase.
IntergenerationOps ==
    {"execute_intergeneration_phase", "complete_intergeneration_phase",
     "try_advance_phase", "next_phase"}

\* C12: whenever a win condition holds in Intergeneration, leaving the phase
\* by execute_intergeneration_phase, complete_intergeneration_phase,
\* try_advance_phase or next_phase puts the game in End, never in Drafting or
\* Research, the generation not having been incremented.
C12_WinInIntergenerationEndsGame ==
    [][(/\ phase = "Intergeneration"
        /\ check_win_conditions(Game) # "None"
        /\ op'[1] \in IntergenerationOps
        /\ phase' # "Intergeneration") =>
           (phase' = "End" /\ generation' = generation)]_vars

\* Every global parameter the game plays with shows its maximum.
AllEnabledMaxed ==
    /\ GlobalParametersGet(global_parameters, "Oceans") = MAX_OCEANS
    /\ GlobalParametersGet(global_parameters, "Oxygen") = MAX_OXYGEN
    /\ GlobalParametersGet(global_parameters, "Temperature") = MAX_TEMPERATURE
    /\ (GlobalParametersGet(global_parameters, "Venus") = MAX_VENUS \/ ~venus_next)

\* C13: check_win_conditions reports a win, with several players, iff oceans,
\* oxygen and temperature are at maximum and Venus is at maximum or not
\* played; with one player, iff that holds or the player's terraform rating
\* is 63 or more.
C13_WinConditions ==
    op[1] = "check_win_conditions" =>
        (ret # "None" <=>
            \/ AllEnabledMaxed
            \/ Len(players) = 1 /\ players[1].terraform_rating >= SOLO_TR_WIN)

\* A single player wins on the rating with no parameter at its maximum.
C13_Witness ==
    /\ op[1] = "check_win_conditions"
    /\ Len(players) = 1
    /\ players[1].terraform_rating >= SOLO_TR_WIN
    /\ global_parameters = GlobalParametersNew
    /\ ret = "SoloTr63"

\* Oceans, oxygen and temperature show their maxima.
MarsMaxed ==
    /\ GlobalParametersGet(global_parameters, "Oceans") = MAX_OCEANS
    /\ GlobalParametersGet(global_parameters, "Oxygen") = MAX_OXYGEN
    /\ GlobalParametersGet(global_parameters, "Temperature") = MAX_TEMPERATURE

\* C14: execute_solar_phase, called in Solar with Venus Next enabled, ends the
\* game with the result Terraformed iff oceans, oxygen and temperature are at
\* maximum, whatever the Venus value, and otherwise moves the game to
\* Intergeneration; with Venus Next disabled it returns an error and changes
\* nothing.
C14_SolarPhase ==
    [][op'[1] = "execute_solar_phase" =>
         /\ (phase = "Solar" /\ venus_next) =>
                IF MarsMaxed THEN phase' = "End" /\ ret' = "Terraformed"
                ELSE phase' = "Intergeneration" /\ ret' = "Ok(None)"
         /\ ~venus_next =>
                /\ ret' \notin {"Ok(None)", "Terraformed"}
                /\ UNCHANGED gameVars]_vars

\* The Solar phase ends a game in which Venus is below its maximum.
C14_Witness ==
    /\ op[1] = "execute_solar_phase"
    /\ ret = "Terraformed"
    /\ phase = "End"
    /\ GlobalParametersGet(global_parameters, "Venus") < MAX_VENUS

(***************************************************************************)
(* Properties of the generation counter and of the conditional edges.      *)
(***************************************************************************)
\* C15: the generation is at least 1 and never decreases, and every step in
\* which the phase changes from Intergeneration to Drafting or to Research
\* increases the generation by exactly 1.
C15_GenerationCounts ==
    [][/\ generation >= 1
       /\ generation' >= generation
       /\ (phase = "Intergeneration" /\ phase' \in {"Drafting", "Research"}) =>
              generation' = generation + 1]_vars

\* The successor the table conditions give to the phases with two ways out.
ConditionalSuccessor ==
    CASE phase = "Research" ->
            IF generation = 1 /\ prelude THEN "Preludes" ELSE "Action"
      [] phase = "Production" ->
            IF venus_next THEN "Solar" ELSE "Intergeneration"
      [] phase = "Intergeneration" ->
            IF draft_variant THEN "Drafting" ELSE "Research"
      [] OTHER -> phase

\* C16: the conditional edges are chosen by the table conditions: every step
\* that leaves Research, Production or, without a win, Intergeneration goes
\* to the successor the conditions give, so that next_phase and the
\* completion operations choose the same successor.
C16_ConditionalEdges ==
    [][(/\ phase \in {"Research", "Production", "Intergeneration"}
        /\ phase' # phase
        /\ phase = "Intergeneration" => check_win_conditions(Game) = "None") =>
           phase' = ConditionalSuccessor]_vars

\* The completion operation of a phase, called in that phase, chooses the
\* successor next_phase chooses.
CompletionAgreesWithNextPhase ==
    [][(/\ \/ phase = "Research" /\ op'[1] = "complete_research_phase"
           \/ phase = "Production" /\ op'[1] = "complete_production_phase"
           \/ /\ phase = "Intergeneration"
              /\ op'[1] = "complete_intergeneration_phase"
        /\ phase' # phase) =>
           phase' = next_phase(Game).g.phase]_vars

(***************************************************************************)
(* Properties of the turns of the Action phase.                            *)
(***************************************************************************)
\* The seat k places after seat s in the seating order, wrapping around.
Forward(s, k) == ((s - 1 + k) % Len(players)) + 1

\* The first seat after seat s, scanning forward with wrap-around, whose
\* player is not in `passed` (as a sequence: empty when there is none).
FirstNotPassed(passed, s) ==
    LET free == {k \in 1..Len(players) :
                   /\ ~Contains(passed, Forward(s, k))
                   /\ \A j \in 1..(k - 1) : Contains(passed, Forward(s, j))}
    IN  IF free = {} THEN <<>> ELSE <<Forward(s, CHOOSE k \in free : TRUE)>>

\* C17: when pass_player succeeds without ending the Action phase, the
\* passing player is in the passed set, the new active player is the first
\* player not in the passed set found by scanning the seats forward with
\* wrap-around from the seat of the passing player, and the count of actions
\* taken this turn is 0.
C17_PassHandsOver ==
    [][(/\ op' \in PassOps
        /\ ret' = Ok
        /\ phase = "Action"
        /\ phase' = "Action"
        /\ active_player_id # <<>>) =>
           /\ Contains(passed_players', active_player_id[1])
           /\ active_player_id' = FirstNotPassed(passed_players', active_player_id[1])
           /\ actions_taken_this_turn' = 0]_vars

\* The third player passes after the first: the scan wraps around, skips the
\* first player and stops at the second.
C17_Witness ==
    /\ op \in PassOps
    /\ ret = Ok
    /\ phase = "Action"
    /\ Len(players) = TurnPlayers
    /\ passed_players = <<1, TurnPlayers>>
    /\ active_player_id = <<2>>

\* C18: in every step during the Action phase in which the active player
\* changes, by the hand-over after a pass or by next_player, the count of
\* actions taken is 0 for the new active player.
C18_BudgetPerTurn ==
    [][(/\ phase = "Action"
        /\ phase' = "Action"
        /\ active_player_id' # active_player_id) =>
           actions_taken_this_turn' = 0]_vars

\* C19: the passed set never contains a player twice and never has more
\* members than there are players, and it is empty in every state whose
\* phase is not Action.
C19_PassedSet ==
    /\ \A i, j \in 1..Len(passed_players) :
           passed_players[i] = passed_players[j] => i = j
    /\ Len(passed_players) <= Len(players)
    /\ phase # "Action" => passed_players = <<>>

(***************************************************************************)
(* Properties of the global parameters.                                    *)
(***************************************************************************)
\* The documented maximum of the user-facing value of a parameter.
DocumentedMax(param) ==
    CASE param = "Oceans" -> MAX_OCEANS
      [] param = "Oxygen" -> MAX_OXYGEN
      [] param = "Temperature" -> MAX_TEMPERATURE
      [] param = "Venus" -> MAX_VENUS

\* C20: for each of the four global parameters and every sequence of increase
\* calls, the user-facing value returned by get never decreases from one call
\* to the next and never exceeds its maximum (oceans 9, oxygen 14,
\* temperature 8, venus 30).
C20_ValuesRiseToMaximum ==
    [][\A param \in GlobalParameter :
          /\ GlobalParametersGet(global_parameters', param)
                 >= GlobalParametersGet(global_parameters, param)
          /\ GlobalParametersGet(global_parameters', param) <= DocumentedMax(param)]_vars

\* An increase by more steps than were left has stopped at the maximum,
\* one or two steps having been applied.
C20_Witness ==
    /\ op[1] = "global_parameters.increase"
    /\ \E param \in GlobalParameter :
          /\ op[2] = param
          /\ GlobalParametersGet(global_parameters, param) = DocumentedMax(param)
          /\ ret \in {"1", "2"}

\* C21: increase(p, n) called when parameter p has r steps left to its
\* ceiling applies exactly min(n, r) steps and returns min(n, r), so that
\* increase(p, 0) and an increase at the ceiling return 0 and change
\* nothing; no other parameter changes and the step index stays within its
\* 8-bit store.
C21_IncreaseSaturates ==
    [][op'[1] = "global_parameters.increase" =>
         LET p == op'[2]
             n == op'[3]
             r == MaxScale(p) - Scale(global_parameters, p)
             applied == IF n <= r THEN n ELSE r
         IN  /\ ret' = CountText(applied)
             /\ Scale(global_parameters', p) = Scale(global_parameters, p) + applied
             /\ \A q \in GlobalParameter \ {p} :
                    Scale(global_parameters', q) = Scale(global_parameters, q)
             /\ \A q \in GlobalParameter :
                    Scale(global_parameters', q) \in 0..MaxScale(q)]_vars

\* increase(Oceans, 100) on a new ocean track has returned 9.
C21_Witness ==
    /\ op = <<"global_parameters.increase", "Oceans", TestSteps>>
    /\ ret = "9"
    /\ GlobalParametersGet(global_parameters, "Oceans") = MAX_OCEANS

\* C22: no operation of the global-parameter track (increase, set, add)
\* ever lowers a counter: after each of them every step index is at least
\* what it was before and at most its maximum step.
C22_CountersNeverLowered ==
    [][\A q \in GlobalParameter :
          /\ Scale(global_parameters', q) >= Scale(global_parameters, q)
          /\ Scale(global_parameters', q) <= MaxScale(q)]_vars

\* Every step index stays at or below its maximum step.
TrackWithinScales ==
    \A q \in GlobalParameter : Scale(global_parameters, q) \in 0..MaxScale(q)

\* increase and add never lower a counter.
IncreaseAndAddNeverLower ==
    [][op'[1] \in {"global_parameters.increase", "global_parameters.add"} =>
          \A q \in GlobalParameter :
              Scale(global_parameters', q) >= Scale(global_parameters, q)]_vars

(***************************************************************************)
(* The draft (game/draft.rs) driven by its caller.                         *)
(***************************************************************************)
\* What the draft specifications bound: the iteration counter, the round
\* counter and the cards a player accumulates or holds.
DraftBounded(g) ==
    /\ g.initial_draft_iteration <= MaxDraftIteration
    /\ g.draft_round <= MaxDraftRound
    /\ \A s \in Seats(g) :
          /\ Len(g.players[s].drafted_cards) <= MaxDrafted
          /\ Len(g.players[s].cards_in_hand) <= MaxDrafted

\* A draft operation `name` took the game to r.g and returned r.ret.
DraftCall(name, r) ==
    \E x \in {r} :
        /\ DraftBounded(x.g)
        /\ SetGame(x.g)
        /\ op' = name
        /\ ret' = x.ret
        /\ run' = RunAfter(name, x.g)
        /\ UNCHANGED <<caller_queue, drain_log, done, stalled>>

\* The cards a caller picks for seat s: the first or the last of the hand.
HandPicks(g, s) ==
    LET hand == g.players[s].draft_hand
    IN  IF hand = <<>> THEN {} ELSE {<<hand[1]>>, <<hand[Len(hand)]>>}

\* The card a caller picks for seat s when it takes the first of the hand.
FirstPick(g, s) ==
    IF g.players[s].draft_hand = <<>> THEN {} ELSE {<<g.players[s].draft_hand[1]>>}

\* The lists process_draft_selection rejects for seat s: no card, a card that
\* is in no hand, two cards of the hand; for a seat without player, a card.
BadSelections(g, s) ==
    IF KnownPlayer(g, s)
    THEN {<<>>, <<"no_card">>}
         \cup (IF Len(g.players[s].draft_hand) > 1
               THEN {SubSeq(g.players[s].draft_hand, 1, 2)} ELSE {})
    ELSE {<<ProjectCardIds[1]>>}

\* start_draft called with any draft type of `types`.
StartDraft(types) ==
    \E t \in types : DraftCall(<<"start_draft", t>>, start_draft(Game, t))

\* process_draft_selection called with any draft type of `types`, for any
\* seat that selected fewer than MaxSelected cards, whether it still has to
\* select in this round or not, with the first card of its hand.
SelectCard(types) ==
    \E t \in types : \E s \in Seats(Game) : \E cards \in FirstPick(Game, s) :
        /\ Len(players[s].drafted_cards) < MaxSelected
        /\ DraftCall(<<"process_draft_selection", t, s, cards>>,
                  process_draft_selection(Game, s, cards, t))

\* process_draft_selection called with a list it rejects, or for a seat that
\* is not a player's.
SelectInvalid(types) ==
    \E t \in types : \E s \in 1..(Len(players) + 1) :
        \E cards \in BadSelections(Game, s) :
            DraftCall(<<"process_draft_selection", t, s, cards>>,
                      process_draft_selection(Game, s, cards, t))

\* end_draft_iteration called with any draft type of `types`.
EndIteration(types) ==
    \E t \in types :
        DraftCall(<<"end_draft_iteration", t>>, end_draft_iteration(Game, t))

\* n times, the active player passes.
RECURSIVE Passes(_, _)
Passes(g, n) == IF n = 0 THEN g ELSE Passes(pass_player(g).g, n - 1)

\* The game of n players with the draft variant as the Drafting phase of the
\* second generation begins: corporations selected, every player passed in
\* the first action phase, production and intergeneration completed.
SecondDrafting(n) ==
    LET research == next_phase(GameNew(n, FALSE, FALSE, TRUE)).g
        dealt == start_research_phase(research).g
        action == complete_research_phase(SelectCorporations(dealt, 1)).g
    IN  try_advance_phase(try_advance_phase(Passes(action, n)).g).g

\* The draft type of the iteration under way, as the last call named it.
TypeUnderWay == op[2]

\* start_draft as the first call of a session.
BeginDraft(types) == op = <<"new">> /\ StartDraft(types)

\* end_draft_iteration as the first call of a session: no card was selected
\* in the iteration it ends.
SkipIteration(types) == op = <<"new">> /\ EndIteration(types)

\* process_draft_selection for a seat that still has to select in this
\* round, with the type of the iteration under way and a card of its hand.
SelectInTurn ==
    /\ op # <<"new">>
    /\ \E s \in Seats(Game) : \E cards \in HandPicks(Game, s) :
          /\ players[s].needs_to_draft
          /\ DraftCall(<<"process_draft_selection", TypeUnderWay, s, cards>>,
                       process_draft_selection(Game, s, cards, TypeUnderWay))

InitialOnly == {"Initial"}

\* One draft iteration of any type in a game of up to DraftPlayers players,
\* from a new game or from the Drafting phase of the second generation: the
\* iteration is started (for the Initial type the first or the second one),
\* then every player selects one card in each round, in any order.
InitDraft ==
    \E n \in 1..DraftPlayers : \E first \in BOOLEAN :
        InitGame(IF first THEN GameNew(n, FALSE, FALSE, FALSE) ELSE SecondDrafting(n))

NextDraft ==
    \/ BeginDraft(DraftType)
    \/ SkipIteration(InitialOnly)
    \/ SelectInTurn

SpecDraft == InitDraft /\ [][NextDraft]_vars

\* The Initial draft of a new game of up to MaxPlayers players under calls
\* in any order and number: rounds started, cards selected by seats that
\* have or have not selected yet, rejected selections, iterations ended.
InitInitial == \E n \in 0..MaxPlayers : InitGame(GameNew(n, FALSE, FALSE, FALSE))

NextInitial ==
    \/ StartDraft(InitialOnly)
    \/ SelectCard(InitialOnly)
    \/ SelectInvalid(InitialOnly)
    \/ EndIteration(InitialOnly)

SpecInitial == InitInitial /\ [][NextInitial]_vars

(***************************************************************************)
(* Claims about the draft.                                                 *)
(***************************************************************************)
\* The seat k places after seat i among n seats, wrapping around.
Wrap(i, k, n) == ((i - 1 + k + n) % n) + 1

\* The draft hands, in seat order, once the selection the next operation
\* records has left the hand of its seat.
HandsAfterSelection ==
    [s \in 1..Len(players) |->
        IF s = op'[3]
        THEN Retain(players[s].draft_hand, Range(players[s].draft_hand) \ Range(op'[4]))
        ELSE players[s].draft_hand]

\* The selections of every seat, in seat order, once the selection the next
\* operation records has been added to those of its seat.
DraftedAfterSelection ==
    [s \in 1..Len(players) |->
        IF s = op'[3] THEN players[s].drafted_cards \o op'[4]
        ELSE players[s].drafted_cards]

\* The next operation is an accepted selection.
AcceptedSelection ==
    /\ op'[1] = "process_draft_selection"
    /\ ret' \in {"Ok(true)", "Ok(false)"}

\* The accepted selection the next operation records is the last of its round.
CompletesRound ==
    /\ AcceptedSelection
    /\ \A s \in 1..Len(players) : s # op'[3] => ~players[s].needs_to_draft

\* The next operation is a selection that completes a round by a rotation.
RotationStep == CompletesRound /\ draft_round' = draft_round + 1

\* The documented direction for draft type t under the current counters:
\* TRUE toward lower seat index, FALSE toward higher.
TowardLower(t) ==
    CASE t = "Initial" -> initial_draft_iteration = 2
      [] t = "Standard" -> generation % 2 = 1
      [] t = "Prelude" -> FALSE

\* C23: the rotation direction is a function of the draft type and the
\* current counters only: whenever a selection completes a round by a
\* rotation, every seat i holds the hand of seat i+1 if the type is Initial
\* and the initial-draft iteration is 2 or the type is Standard and the
\* generation is odd, and the hand of seat i-1 otherwise (Initial in another
\* iteration, Standard in an even generation, Prelude always).
C23_DirectionIsComputed ==
    [][RotationStep =>
         \A i \in 1..Len(players) :
            players'[i].draft_hand =
                HandsAfterSelection[Wrap(i, IF TowardLower(op'[2]) THEN 1 ELSE 0 - 1,
                                         Len(players))]]_vars

\* Three players, Standard type, generation 1: the first seat selected its
\* first card and the second seat its last card, and after the rotation the
\* first seat holds the hand the second seat's selection came from.
C23_Witness ==
    /\ Len(players) = 3
    /\ op[1] = "process_draft_selection" /\ op[2] = "Standard"
    /\ generation = 1 /\ draft_round = 2
    /\ players[1].drafted_cards = <<ProjectCardIds[1]>>
    /\ players[2].drafted_cards = <<ProjectCardIds[4]>>
    /\ players[3].drafted_cards = <<ProjectCardIds[1]>>
    /\ players[1].draft_hand = SubSeq(ProjectCardIds, 1, 3)
    /\ players[3].draft_hand = SubSeq(ProjectCardIds, 2, 4)

\* How many times card c occurs in the hands.
Occurrences(hands, c) ==
    Cardinality({ij \in (DOMAIN hands) \X (1..INITIAL_DRAFT_CARDS) :
                    ij[2] <= Len(hands[ij[1]]) /\ hands[ij[1]][ij[2]] = c})

\* C24: a rotation toward lower seat index (direction Before) gives seat i
\* the hand seat i+1 held, a rotation toward higher seat index (direction
\* After) the hand seat i-1 held, wrapping around, for every player count;
\* no card is added, lost or duplicated, and every player's needs-to-select
\* flag is set.
C24_RotationPermutesHands ==
    [][RotationStep =>
         LET n == Len(players)
             from == IF get_pass_direction(Game, op'[2]) = "Before" THEN 1 ELSE n - 1
         IN  /\ \A i \in 1..n :
                    /\ players'[i].draft_hand = HandsAfterSelection[((i - 1 + from) % n) + 1]
                    /\ players'[i].needs_to_draft
             /\ \A c \in Range(ProjectCardIds) \cup Range(PreludeCardIds) :
                    Occurrences([i \in 1..n |-> players'[i].draft_hand], c)
                        = Occurrences(HandsAfterSelection, c)]_vars

\* Three players, Standard type, generation 2: after the rotation toward
\* higher seat index the first seat holds the hand the third seat selected
\* its last card from, the third seat the hand of the second, and all three
\* have to select again.
C24_Witness ==
    /\ Len(players) = 3
    /\ op[1] = "process_draft_selection" /\ op[2] = "Standard"
    /\ generation = 2 /\ draft_round = 2
    /\ players[1].drafted_cards = <<ProjectCardIds[1]>>
    /\ players[2].drafted_cards = <<ProjectCardIds[1]>>
    /\ players[3].drafted_cards = <<ProjectCardIds[4]>>
    /\ players[1].draft_hand = SubSeq(ProjectCardIds, 1, 3)
    /\ players[3].draft_hand = SubSeq(ProjectCardIds, 2, 4)
    /\ \A s \in 1..3 : players[s].needs_to_draft

\* C25: when a selection completes a round and no hand holds more than one
\* card, every player's selections are extended by the whole remaining hand
\* of the neighbour on the trailing edge of the rotation direction (seat i+1
\* toward lower seats, seat i-1 toward higher seats, wrapping around, the
\* player's own hand when alone), every hand is then empty and the call
\* returns true; when some hand still holds more than one card the round
\* counter is incremented and the hands are rotated instead.
C25_TerminalHandOff ==
    [][CompletesRound =>
         LET n == Len(players)
             from(i) == Wrap(i, IF TowardLower(op'[2]) THEN 1 ELSE 0 - 1, n)
         IN  IF \E i \in 1..n : Len(HandsAfterSelection[i]) > 1
             THEN /\ draft_round' = draft_round + 1
                  /\ ret' = "Ok(false)"
                  /\ \A i \in 1..n :
                        /\ players'[i].draft_hand = HandsAfterSelection[from(i)]
                        /\ players'[i].drafted_cards = DraftedAfterSelection[i]
             ELSE /\ draft_round' = draft_round
                  /\ ret' = "Ok(true)"
                  /\ \A i \in 1..n :
                        /\ players'[i].drafted_cards =
                              DraftedAfterSelection[i] \o HandsAfterSelection[from(i)]
                        /\ players'[i].draft_hand = <<>>]_vars

\* Three players, Standard type, generation 1 (toward lower seats): the last
\* selection returned true, every hand is empty, and the first seat, which
\* selected the last card of each hand, ends with the card the second seat
\* was left with.
C25_Witness ==
    /\ Len(players) = 3
    /\ op[1] = "process_draft_selection" /\ op[2] = "Standard"
    /\ generation = 1
    /\ ret = "Ok(true)"
    /\ \A s \in 1..3 : players[s].draft_hand = <<>>
    /\ players[1].drafted_cards =
          <<ProjectCardIds[4], ProjectCardIds[4], ProjectCardIds[3], ProjectCardIds[1]>>
    /\ players[2].drafted_cards[3] = ProjectCardIds[2]

\* C26: a round completes only when every player has made exactly one
\* selection in it, whatever the order and number of calls: a selection is
\* accepted only from a player who has not selected since the round began
\* (whose needs-to-select flag is still set), so that during one round each
\* player's selections grow by exactly one card and each hand shrinks by
\* exactly one card.
C26_OneSelectionPerRound ==
    [][AcceptedSelection => players[op'[3]].needs_to_draft]_vars

\* What holds of the selections whatever their number: an accepted selection
\* moves exactly the selected card from the hand of its seat to its
\* selections before the round completes or not, and touches no other seat's
\* selections unless the terminal hand-off happens.
SelectionMovesOneCard ==
    [][AcceptedSelection =>
         /\ Len(op'[4]) = 1
         /\ Contains(players[op'[3]].draft_hand, op'[4][1])
         /\ Len(HandsAfterSelection[op'[3]]) = Len(players[op'[3]].draft_hand) - 1
         /\ ret' = "Ok(false)" =>
               \A s \in 1..Len(players) :
                   players'[s].drafted_cards = DraftedAfterSelection[s]]_vars

\* The number of cards round 1 deals to each player, as documented.
DealtCards(t) ==
    CASE t = "Initial" -> 5
      [] t = "Standard" -> 4
      [] t = "Prelude" -> 4

\* The cards seat s has in its draft hand and among its selections.
CardsOf(s) == Len(players[s].draft_hand) + Len(players[s].drafted_cards)

\* The cards of the seats from s on.
RECURSIVE CardsFrom(_)
CardsFrom(s) == IF s > Len(players) THEN 0 ELSE CardsOf(s) + CardsFrom(s + 1)

C28_TwoIterations ==
    [][/\ (op' = <<"end_draft_iteration", "Initial">> /\ initial_draft_iteration = 1) =>
            /\ initial_draft_iteration' = 2
            /\ draft_round' = 1
            /\ phase' = phase
            /\ \A s \in 1..Len(players) :
                  /\ players'[s].draft_hand = SubSeq(ProjectCardIds, 1, INITIAL_DRAFT_CARDS)
                  /\ players'[s].needs_to_draft
                  /\ players'[s].drafted_cards = players[s].drafted_cards
                  /\ players'[s].cards_in_hand = players[s].cards_in_hand
       /\ (op' = <<"end_draft_iteration", "Initial">> /\ initial_draft_iteration = 2) =>
            /\ initial_draft_iteration' = 3
            /\ phase' = "Research"
            /\ \A s \in 1..Len(players) :
                  /\ players'[s].cards_in_hand =
                        players[s].cards_in_hand \o players[s].drafted_cards
                  /\ players'[s].drafted_cards = <<>>
       /\ phase' # phase =>
            /\ op' = <<"end_draft_iteration", "Initial">>
            /\ initial_draft_iteration = 2
            /\ phase = "InitialDrafting" /\ phase' = "Research"]_vars

\* Two players: the second end_draft_iteration(Initial) has taken the game
\* to Research, the first player holding the two cards it had selected.
C28_Witness ==
    /\ Len(players) = 2
    /\ op = <<"end_draft_iteration", "Initial">>
    /\ phase = "Research"
    /\ initial_draft_iteration = 3
    /\ Len(players[1].cards_in_hand) = 2
    /\ players[1].drafted_cards = <<>>

\* The next operation returned an error.
ReturnsError == ret' \notin {Ok, "Ok(true)", "Ok(false)", "Ok(None)"}

\* The draft state: round, iteration, phase, and every player's hand,
\* selections and needs-to-select flag.
DraftUnchanged ==
    /\ UNCHANGED <<draft_round, initial_draft_iteration, phase>>
    /\ \A s \in 1..Len(players) :
          /\ players'[s].draft_hand = players[s].draft_hand
          /\ players'[s].drafted_cards = players[s].drafted_cards
          /\ players'[s].needs_to_draft = players[s].needs_to_draft

\* C30: draft operations do not partially apply: process_draft_selection
\* called with a number of cards other than 1, with a card that is not in
\* the player's hand or for an unknown player, and end_draft_iteration
\* whenever it returns an error, leave the round, the iteration, the phase
\* and every player's hand, selections and needs-to-select flag unchanged.
C30_DraftErrorsChangeNothing ==
    [][(op'[1] \in {"process_draft_selection", "end_draft_iteration"} /\ ReturnsError)
          => DraftUnchanged]_vars

\* The part that holds: a rejected selection changes nothing, and every
\* selection with no card, two cards, a card of no hand or a seat without
\* player is rejected.
RejectedSelectionChangesNothing ==
    [][op'[1] = "process_draft_selection" =>
         /\ ReturnsError => UNCHANGED gameVars
         /\ (\/ Len(op'[4]) # 1
             \/ op'[3] \notin 1..Len(players)
             \/ \E i \in 1..Len(op'[4]) : ~Contains(players[op'[3]].draft_hand, op'[4][i]))
               => ReturnsError]_vars

\* A state that is reached: the third end_draft_iteration(Initial) of a
\* two-player game returned an error and left the iteration counter at 4.
ThirdEndRejected ==
    /\ Len(players) = 2
    /\ op = <<"end_draft_iteration", "Initial">>
    /\ ret = "Invalid initial draft iteration"
    /\ initial_draft_iteration = 4

\* The game of n players as the first Action phase begins, the first player
\* holding one card: it selected a card in the initial draft, both
\* iterations of the draft were ended, and the initial research completed.
HoldingStart(n) ==
    LET dealt == start_draft(GameNew(n, FALSE, FALSE, FALSE), "Initial").g
        selected == process_draft_selection(dealt, 1, <<ProjectCardIds[1]>>, "Initial").g
        second == end_draft_iteration(selected, "Initial").g
        research == end_draft_iteration(second, "Initial").g
        corporations == start_research_phase(research).g
    IN  complete_research_phase(SelectCorporations(corporations, 1)).g

\* The actions of a player that holds project_card_0: Sell Patents of that
\* card, of that card listed twice (with and without a payment), of no card
\* and of a card it does not hold; a power plant; the conversions; Pass.
HolderActions ==
    {StandardProject("SellPatents", 0, <<ProjectCardIds[1]>>),
     StandardProject("SellPatents", 0, <<ProjectCardIds[1], ProjectCardIds[1]>>),
     StandardProject("SellPatents", 1, <<ProjectCardIds[1], ProjectCardIds[1]>>),
     StandardProject("SellPatents", 0, <<>>),
     StandardProject("SellPatents", 0, <<ProjectCardIds[2]>>),
     StandardProject("PowerPlant", StandardProjectCost("PowerPlant"), <<>>),
     StandardProject("Aquifer", StandardProjectCost("Aquifer") - 1, <<>>),
     ConvertPlants, ConvertHeat, Pass}

\* The first Action phase of a game of up to MaxPlayers players in which the
\* first player holds a card.
InitHolding == \E n \in 1..MaxPlayers : InitGame(HoldingStart(n))

NextHolding ==
    \/ ExecuteAction(HolderActions)
    \/ NextPlayer
    \/ StartActionPhase

SpecHolding == InitHolding /\ [][NextHolding]_vars

\* C29: check-then-act for actions: whenever execute_action, called with an
\* empty deferred queue, returns an error for an action of any kind (Sell
\* Patents with any list of card ids included), the game is exactly as
\* before the call: no resource deducted, no card out of the hand, no global
\* parameter, passed set or action count changed.
C29_ActionErrorsChangeNothing ==
    [][(op'[1] = "execute_action" /\ ReturnsError /\ IsEmpty(deferred_actions))
          => UNCHANGED gameVars]_vars

\* What holds: an action that returns an error and changes the game is a
\* standard project that returned "Card not in hand", and all it changed is
\* the acting player's hand and resources.
OnlySellPatentsAppliesPartly ==
    [][(op'[1] = "execute_action" /\ ReturnsError /\ ~UNCHANGED gameVars) =>
         /\ op'[2] = "StandardProject"
         /\ ret' = "Card not in hand"
         /\ UNCHANGED <<phase, generation, active_player_id, passed_players,
                        actions_taken_this_turn, global_parameters>>]_vars

(***************************************************************************)
(* The phase-specific operations called in any phase.                      *)
(***************************************************************************)
HeatEffect == {GainResourcesDeferred(1, "Heat", CONVERT_COST)}

\* One generation of a game of up to MaxPlayers players, played with all of
\* Venus Next, Prelude and the draft variant or with none, an effect
\* deferred or not: every phase-specific operation is called in every phase.
InitMismatch ==
    \E n \in 1..MaxPlayers : \E expansions \in BOOLEAN :
        InitGame(GameNew(n, expansions, expansions, expansions))

NextMismatch ==
    \/ NextPhase
    \/ Defer(HeatEffect)
    \/ ExecuteAction(PassOnly)
    \/ PassPlayer
    \/ StartActionPhase
    \/ EndActionPhase
    \/ ExecuteProductionPhase
    \/ ExecuteSolarPhase
    \/ ExecuteIntergenerationPhase
    \/ CompleteIntergenerationPhase

SpecMismatch == InitMismatch /\ [][NextMismatch]_vars

\* The operations that require the Action phase.
ActionPhaseOps == {"execute_action", "pass_player", "start_action_phase", "end_action_phase"}

\* The operations that require the Intergeneration phase.
IntergenerationPhaseOps ==
    {"execute_intergeneration_phase", "complete_intergeneration_phase"}

\* The next operation returned an error, changed nothing of the game and
\* executed no deferred action.
RejectedWithoutEffect ==
    /\ ReturnsError
    /\ UNCHANGED gameVars
    /\ drain_log' = <<>>

\* C31: a phase mismatch is an error without effect: execute_action,
\* pass_player, start_action_phase and end_action_phase outside Action,
\* execute_production_phase outside Production, execute_solar_phase outside
\* Solar, execute_intergeneration_phase and complete_intergeneration_phase
\* outside Intergeneration return an error and change nothing; execute_action
\* outside Action executes no deferred action.
C31_PhaseMismatch ==
    [][/\ (op'[1] \in ActionPhaseOps /\ phase # "Action") => RejectedWithoutEffect
       /\ (op'[1] = "execute_production_phase" /\ phase # "Production")
             => RejectedWithoutEffect
       /\ (op'[1] = "execute_solar_phase" /\ phase # "Solar") => RejectedWithoutEffect
       /\ (op'[1] \in IntergenerationPhaseOps /\ phase # "Intergeneration")
             => RejectedWithoutEffect]_vars

\* execute_action was refused in the Production phase with an effect waiting
\* in the deferred queue.
C31_Witness ==
    /\ op[1] = "execute_action"
    /\ ret = "Not in action phase"
    /\ phase = "Production"
    /\ ~IsEmpty(deferred_actions)

(***************************************************************************)
(* Milestones and awards (actions/action_executor.rs).                     *)
(***************************************************************************)
\* The caller defines a milestone: game.milestones.push(MilestoneData).
PushMilestone(defs) ==
    /\ Len(milestones) < MaxDefined
    /\ \E m \in defs :
          Call(<<"milestones.push", m.name>>,
               R([Game EXCEPT !.milestones = Append(@, m)], Ok))

\* The caller defines an award: game.awards.push(AwardData).
PushAward(defs) ==
    /\ Len(awards) < MaxDefined
    /\ \E a \in defs :
          Call(<<"awards.push", a.name>>,
               R([Game EXCEPT !.awards = Append(@, a)], Ok))

\* A milestone and an award at a cost and for free (the same name may be
\* defined twice).
MilestoneDefs == {[name |-> "Terraformer", cost |-> SomeCost],
                  [name |-> "Terraformer", cost |-> 0]}
AwardDefs == {[name |-> "Landlord", cost |-> SomeCost], [name |-> "Banker", cost |-> 0]}

\* Claims and fundings of defined and undefined ids, paid in full, paid
\* short and paid beyond what the player owns.
ClaimActions ==
    {ClaimMilestone("Terraformer", SomeCost),
     ClaimMilestone("Terraformer", 0),
     ClaimMilestone("Mayor", SomeCost),
     FundAward("Landlord", SomeCost),
     FundAward("Landlord", CORPORATION_STARTING_MC + 1),
     FundAward("Banker", 0),
     FundAward("Miner", SomeCost),
     Pass}

\* The first Action phase of a game of up to MaxPlayers players: milestones
\* and awards are defined, claimed and funded, turns pass.
InitClaim == \E n \in 1..MaxPlayers : InitGame(ActionStart(n))

NextClaim ==
    \/ PushMilestone(MilestoneDefs)
    \/ PushAward(AwardDefs)
    \/ ExecuteAction(ClaimActions)
    \/ NextPlayer
    \/ StartActionPhase

SpecClaim == InitClaim /\ [][NextClaim]_vars

\* The names claimed, in order, and the names funded, in order.
ClaimedNames == [i \in 1..Len(claimed_milestones) |-> claimed_milestones[i].milestone_name]
FundedNames == [i \in 1..Len(funded_awards) |-> funded_awards[i].award_name]

\* No element of the sequence occurs twice.
NoRepeat(names) ==
    \A i, j \in 1..Len(names) : i # j => names[i] # names[j]

\* C32: no milestone name appears more than once among the claimed
\* milestones and no award name more than once among the funded awards; a
\* ClaimMilestone or FundAward that is accepted names a defined milestone or
\* award that was not claimed or funded before, and one that is rejected
\* (the id already claimed or funded, or unknown) changes nothing: no
\* payment is deducted.
C32_IdempotencyGuard ==
    [][/\ NoRepeat(ClaimedNames') /\ NoRepeat(FundedNames')
       /\ (op' = <<"execute_action", "ClaimMilestone">> /\ ReturnsError)
             => UNCHANGED gameVars
       /\ (op' = <<"execute_action", "FundAward">> /\ ReturnsError)
             => UNCHANGED gameVars
       /\ (op' = <<"execute_action", "ClaimMilestone">> /\ ~ReturnsError) =>
             /\ Len(claimed_milestones') = Len(claimed_milestones) + 1
             /\ SubSeq(claimed_milestones', 1, Len(claimed_milestones)) = claimed_milestones
             /\ LET name == claimed_milestones'[Len(claimed_milestones')].milestone_name
                IN  /\ \E i \in 1..Len(milestones) : milestones[i].name = name
                    /\ ~Contains(ClaimedNames, name)
       /\ (op' = <<"execute_action", "FundAward">> /\ ~ReturnsError) =>
             /\ Len(funded_awards') = Len(funded_awards) + 1
             /\ SubSeq(funded_awards', 1, Len(funded_awards)) = funded_awards
             /\ LET name == funded_awards'[Len(funded_awards')].award_name
                IN  /\ \E i \in 1..Len(awards) : awards[i].name = name
                    /\ ~Contains(FundedNames, name)]_vars

\* A second claim of the milestone the first player holds was rejected, the
\* name being defined twice, and the second player kept its 42 M-euro.
C32_Witness ==
    /\ op = <<"execute_action", "ClaimMilestone">>
    /\ ret = "Milestone already claimed"
    /\ Len(milestones) = 2
    /\ claimed_milestones = <<[player_id |-> 1, milestone_name |-> "Terraformer"]>>
    /\ active_player_id = <<2>>
    /\ players[2].resources.megacredits = CORPORATION_STARTING_MC

(***************************************************************************)
(* Production: what execute_production_phase gives every player.           *)
(***************************************************************************)
\* Production::add: the M-euro production may go below zero, the others stop
\* at zero.
ProductionAdd(production, change) ==
    [megacredits |-> production.megacredits + change.megacredits,
     steel |-> Max(production.steel + change.steel, 0),
     titanium |-> Max(production.titanium + change.titanium, 0),
     plants |-> Max(production.plants + change.plants, 0),
     energy |-> Max(production.energy + change.energy, 0),
     heat |-> Max(production.heat + change.heat, 0)]

\* BehaviorExecutor::apply_production_change for the player in some seat; a
\* field the change leaves out is an amount of 0.
ApplyProductionChange(changes) ==
    \E s \in Seats(Game) : \E change \in changes :
        LET production == ProductionAdd(players[s].production, change)
        IN  /\ production.megacredits >= 0 - MaxDebt
            /\ \A f \in DOMAIN production : production[f] <= MaxProduction
            /\ Call(<<"apply_production_change">>,
                    R([Game EXCEPT !.players[s].production = production], Ok))

\* An industry that costs more M-euro each generation than the terraform
\* rating brings, and a smaller one that pays.
ProductionChanges ==
    {[megacredits |-> 0 - MaxDebt, steel |-> 1, titanium |-> 0,
      plants |-> 0, energy |-> 1, heat |-> 0],
     [megacredits |-> MaxProduction, steel |-> 0, titanium |-> 1,
      plants |-> 1, energy |-> 0 - 1, heat |-> 1]}

\* A new game of 1 or 2 players, with or without the expansions, taken
\* through its phases while the players' productions change.
InitProduce ==
    \E n \in 1..MaxPlayers : \E expansions \in BOOLEAN :
        InitGame(GameNew(n, expansions, expansions, FALSE))

\* No player holds more than MaxStock of steel or of heat.
WithinStock ==
    \A s \in Seats(Game) :
        /\ players[s].resources.steel <= MaxStock
        /\ players[s].resources.heat <= MaxStock

NextProduce ==
    \/ WithinStock /\ NextPhase
    \/ WithinStock /\ PassPlayer
    \/ WithinStock /\ TryAdvancePhase
    \/ WithinStock /\ ApplyProductionChange(ProductionChanges)
    \/ WithinStock /\ ExecuteProductionPhase
    \/ WithinStock /\ CompleteProductionPhase

SpecProduce == InitProduce /\ [][NextProduce]_vars

\* What the production phase makes of player p, as q.
Produced(p, q) ==
    /\ q.resources.heat = p.resources.heat + p.resources.energy + p.production.heat
    /\ q.resources.energy = p.production.energy
    /\ q.resources.megacredits =
          Max(0, p.resources.megacredits + p.terraform_rating + p.production.megacredits)
    /\ q.resources.steel = p.resources.steel + p.production.steel
    /\ q.resources.titanium = p.resources.titanium + p.production.titanium
    /\ q.resources.plants = p.resources.plants + p.production.plants
    /\ q.production = p.production
    /\ q = [p EXCEPT !.resources = q.resources]

\* Everything but the players and the phase is as it was.
OnlyPlayersAndPhase ==
    /\ Len(players') = Len(players)
    /\ [Game EXCEPT !.players = players', !.phase = phase'] = Game'

\* C33: in the Production phase execute_production_phase gives every player
\* heat + energy + heat production as heat, the energy production as energy,
\* max(0, M-euro + terraform rating + M-euro production) as M-euro and adds
\* the steel, titanium and plant productions; productions and the phase stay
\* as they were. complete_production_phase does the same once and then
\* advances the phase.
C33_ProductionPhase ==
    [][/\ (op'[1] = "execute_production_phase" /\ phase = "Production") =>
             /\ ret' = Ok
             /\ OnlyPlayersAndPhase
             /\ phase' = "Production"
             /\ \A s \in Seats(Game) : Produced(players[s], players'[s])
       /\ (op'[1] = "complete_production_phase" /\ phase = "Production") =>
             /\ ret' = Ok
             /\ OnlyPlayersAndPhase
             /\ phase' = next_phase(Game).g.phase
             /\ phase' # "Production"
             /\ \A s \in Seats(Game) : Produced(players[s], players'[s])]_vars

\* The second production of a player in debt: the energy of the first one
\* became heat, and the M-euro stopped at zero.
C33_Witness ==
    /\ op[1] = "execute_production_phase"
    /\ ret = Ok
    /\ \E s \in Seats(Game) :
          /\ players[s].production.megacredits < 0 - players[s].terraform_rating
          /\ players[s].production.energy = 1
          /\ players[s].resources.energy = 1
          /\ players[s].resources.heat = 1
          /\ players[s].resources.steel = 2
          /\ players[s].resources.megacredits = 0

(***************************************************************************)
(* Replay: a second session, created with the configuration and seed of    *)
(* the first, is given every call the first is given. In SpecReplay the    *)
(* variable run holds the second session and what its last call returned.  *)
(***************************************************************************)
\* A binary search that answered by something outside its arguments.
SamePick_elsewhere(first, pick1, second, pick2) == TRUE

\* slice::binary_search_by computes its answer from the slice and the entry
\* alone: on equal queues the two sessions are given the same position.
SamePick(first, pick1, second, pick2) ==
    first = second => pick1 = pick2

\* The same call took the first session to r1 and the second to r2.
ReplayStep(name, r1, r2) ==
    /\ Bounded(r1.g)
    /\ SetGame(r1.g)
    /\ op' = name
    /\ ret' = r1.ret
    /\ run' = [g |-> r2.g, ret |-> r2.ret]
    /\ UNCHANGED <<caller_queue, drain_log, done, stalled>>

\* An operation without inputs, called on both sessions.
Replay(name, operation(_)) ==
    \E r1 \in {operation(Game)} : \E r2 \in {operation(run.g)} :
        ReplayStep(name, r1, r2)

ReplayDefer(effects) ==
    /\ deferred_actions.insertion_counter < MaxDeferred
    /\ \E action \in effects :
          \E pick1 \in Picks(deferred_actions) :
              \E pick2 \in Picks(run.g.deferred_actions) :
                  /\ SamePick(deferred_actions, pick1, run.g.deferred_actions, pick2)
                  /\ ReplayStep(<<"defer">>, R(defer(Game, action, pick1), Ok),
                                R(defer(run.g, action, pick2), Ok))

ReplayProcessDeferredActions ==
    \E pick1 \in Picks(deferred_actions) :
        \E pick2 \in Picks(run.g.deferred_actions) :
            /\ SamePick(deferred_actions, pick1, run.g.deferred_actions, pick2)
            /\ \E r1 \in {process_deferred_actions(Game, pick1)} :
                  \E r2 \in {process_deferred_actions(run.g, pick2)} :
                      ReplayStep(<<"process_deferred_actions">>, r1, r2)

ReplayExecuteAction(actions) ==
    \E action \in actions :
        \E pick1 \in Picks(deferred_actions) :
            \E pick2 \in Picks(run.g.deferred_actions) :
                /\ SamePick(deferred_actions, pick1, run.g.deferred_actions, pick2)
                /\ \E r1 \in {execute_action(Game, action, pick1)} :
                      \E r2 \in {execute_action(run.g, action, pick2)} :
                          ReplayStep(<<"execute_action", action.kind>>, r1, r2)

\* Two sessions of 1 or 2 players, each created by Game::new with the same
\* arguments.
InitReplay ==
    \E n \in 1..MaxPlayers : \E expansions \in BOOLEAN :
        /\ InitSession(GameNew(n, expansions, expansions, expansions))
        /\ run = [g |-> GameNew(n, expansions, expansions, expansions), ret |-> Ok]

\* A closure that asks for input once and defers a cost when it completes, a
\* cost, and a gain of plants.
ReplayEffects ==
    {SimpleDeferredAction(1, "Default", <<"NeedsInput", "Completed">>, <<"Cost">>),
     SimpleDeferredAction(1, "Cost", <<"Completed">>, <<>>),
     GainResourcesDeferred(1, "Plants", CONVERT_COST)}

ReplayNextPhase == Replay(<<"next_phase">>, next_phase)

ReplayTryAdvancePhase == Replay(<<"try_advance_phase">>, try_advance_phase)

ReplayPassPlayer == Replay(<<"pass_player">>, pass_player)

ReplayStartActionPhase == Replay(<<"start_action_phase">>, start_action_phase)

NextReplay ==
    \/ ReplayNextPhase
    \/ ReplayTryAdvancePhase
    \/ ReplayPassPlayer
    \/ ReplayStartActionPhase
    \/ ReplayDefer(ReplayEffects)
    \/ ReplayProcessDeferredActions
    \/ ReplayExecuteAction(PassOnly)

SpecReplay == InitReplay /\ [][NextReplay]_vars

EntersAction == phase # "Action" /\ phase' = "Action"

\* C35: whenever the session enters the Action phase, from Research or from
\* Preludes, in any generation and by any phase-advance operation, the active
\* player is the first player in seat order, the passed set is empty and the
\* count of actions taken this turn is 0.
C35_ActionPhaseStartsFresh ==
    [][EntersAction =>
          /\ Len(players) > 0 => active_player_id' = <<1>>
          /\ passed_players' = <<>>
          /\ actions_taken_this_turn' = 0]_vars

(***************************************************************************)
(* Stalls: what a caller can do about an effect that needs input.          *)
(***************************************************************************)
\* A closure that needs input once and completes when it is run again, a
\* payment the player can make once, and a tile placement.
StallEffects ==
    {SimpleDeferredAction(1, "Default", <<"NeedsInput", "Completed">>, <<>>),
     SelectPaymentDeferred(1, 40),
     PlaceTileDeferred(1)}

InitStall == \E n \in 1..MaxPlayers : InitGame(ActionStart(n))

NextStall ==
    \/ Defer(StallEffects)
    \/ ProcessDeferredActions
    \/ ExecuteAction(PassOnly)
    \/ NextPhase

SpecStall == InitStall /\ [][NextStall]_vars

\* The calling loop: it drains again after a stall, goes on submitting
\* actions and advances the phase.
FairStall ==
    /\ SpecStall
    /\ WF_vars(ProcessDeferredActions)
    /\ WF_vars(ExecuteAction(PassOnly))
    /\ WF_vars(NextPhase)

\* The last call stopped at an effect that needs input; the effect is at the
\* head of the queue.
NeedsInputAtHead ==
    /\ ret = NEEDS_INPUT_ERROR
    /\ ~IsEmpty(deferred_actions)

\* The queue is empty and execute_action has accepted an action.
Resumed ==
    /\ IsEmpty(deferred_actions)
    /\ op[1] = "execute_action"
    /\ ret = Ok

\* C36: a stall is never permanent: once the effect at the head of the
\* deferred queue has returned NeedsInput, the caller's public operations
\* lead to a state in which the queue is empty and execute_action accepts an
\* action again.
C36_StallIsNeverPermanent == NeedsInputAtHead ~> Resumed

\* A tile placement is among the deferred actions.
TileQueued ==
    \E i \in 1..Len(deferred_actions.queue) :
        deferred_actions.queue[i].action.kind = "PlaceTile"

\* No operation takes a tile placement out of the queue: from the call that
\* defers one on, the queue is never empty again.
TilePlacementStaysQueued == [][TileQueued => TileQueued']_vars

(***************************************************************************)
(* Standard drafts over several generations.                               *)
(***************************************************************************)
\* An operation called while the generation is at most MaxDraftGeneration.
GenerationCall(name, r) ==
    /\ r.g.generation <= MaxDraftGeneration
    /\ DraftCall(name, r)

\* process_draft_selection for a seat that still has to select in this
\* round, with the first card of its hand.
SelectNeeded(types) ==
    \E t \in types : \E s \in Seats(Game) : \E cards \in FirstPick(Game, s) :
        /\ players[s].needs_to_draft
        /\ DraftCall(<<"process_draft_selection", t, s, cards>>,
                     process_draft_selection(Game, s, cards, t))

StandardOnly == {"Standard"}

DraftPassPlayer == GenerationCall(<<"pass_player">>, pass_player(Game))

DraftTryAdvancePhase ==
    GenerationCall(<<"try_advance_phase">>, try_advance_phase(Game))

DraftExecuteIntergenerationPhase ==
    GenerationCall(<<"execute_intergeneration_phase">>,
                   execute_intergeneration_phase(Game))

DraftCompleteIntergenerationPhase ==
    GenerationCall(<<"complete_intergeneration_phase">>,
                   complete_intergeneration_phase(Game))

\* A game of 1 or 2 players with the draft variant, from the Drafting phase
\* of its second generation into the third: in the Drafting phase the draft
\* is started when no selection is due, cards are selected and the iteration
\* is ended; the phases are advanced.
InitGenerations == \E n \in 1..MaxPlayers : InitGame(SecondDrafting(n))

\* No player has a selection to make in the round under way.
RoundOver == \A s \in Seats(Game) : ~players[s].needs_to_draft

NextGenerations ==
    \/ phase = "Drafting" /\ RoundOver /\ StartDraft(StandardOnly)
    \/ phase = "Drafting" /\ SelectNeeded(StandardOnly)
    \/ phase = "Drafting" /\ EndIteration(StandardOnly)
    \/ DraftPassPlayer
    \/ DraftTryAdvancePhase
    \/ DraftExecuteIntergenerationPhase
    \/ DraftCompleteIntergenerationPhase

SpecGenerations == InitGenerations /\ [][NextGenerations]_vars

\* One of the three operations took the session into the Drafting phase.
EntersDrafting ==
    /\ phase # "Drafting"
    /\ phase' = "Drafting"
    /\ op'[1] \in {"execute_intergeneration_phase",
                   "complete_intergeneration_phase", "try_advance_phase"}

\* C37: whenever execute_intergeneration_phase, complete_intergeneration_phase
\* or try_advance_phase takes the session into the Drafting phase of a new
\* generation, the draft round counter is 1 and every player's draft hand and
\* accumulated selections are empty, so that start_draft(Standard) deals.
C37_DraftBeginsByDealing ==
    [][EntersDrafting =>
          /\ draft_round' = 1
          /\ \A s \in Seats(Game) :
                /\ players'[s].draft_hand = <<>>
                /\ players'[s].drafted_cards = <<>>]_vars

\* The part that holds: execute_intergeneration_phase enters the Drafting
\* phase with the round counter at 1 and nothing in hand or selected.
ExecuteIntergenerationResets ==
    [][(EntersDrafting /\ op'[1] = "execute_intergeneration_phase") =>
          /\ draft_round' = 1
          /\ \A s \in Seats(Game) :
                /\ players'[s].draft_hand = <<>>
                /\ players'[s].drafted_cards = <<>>]_vars

\* In the Drafting phase of the third generation start_draft(Standard)
\* returned Ok and left every draft hand empty.
StartDraftDealtNothing ==
    /\ generation = 3
    /\ phase = "Drafting"
    /\ op = <<"start_draft", "Standard">>
    /\ ret = Ok
    /\ \A s \in Seats(Game) : players[s].draft_hand = <<>>

\* The draft and research state of a player.
DraftAndResearch(p) ==
    [draft_hand |-> p.draft_hand, drafted_cards |-> p.drafted_cards,
     needs_to_draft |-> p.needs_to_draft, cards_in_hand |-> p.cards_in_hand,
     dealt_corporation_cards |-> p.dealt_corporation_cards,
     selected_corporation |-> p.selected_corporation,
     dealt_prelude_cards |-> p.dealt_prelude_cards,
     selected_preludes |-> p.selected_preludes]

\* What the two operations are compared in.
AfterIntergeneration(g) ==
    [generation |-> g.generation, phase |-> g.phase,
     passed_players |-> g.passed_players, draft_round |-> g.draft_round,
     players |-> [s \in Seats(g) |-> DraftAndResearch(g.players[s])]]

\* C38: execute_intergeneration_phase and complete_intergeneration_phase are
\* interchangeable when no win condition holds: applied to the same
\* Intergeneration state they produce the same generation, phase, passed set,
\* draft round counter and per-player draft and research state.
C38_IntergenerationInterchangeable ==
    (phase = "Intergeneration" /\ check_win_conditions(Game) = "None") =>
        AfterIntergeneration(execute_intergeneration_phase(Game).g)
            = AfterIntergeneration(complete_intergeneration_phase(Game).g)

\* The part that holds: both take the session to the same generation.
SameGenerationAfterIntergeneration ==
    (phase = "Intergeneration" /\ check_win_conditions(Game) = "None") =>
        execute_intergeneration_phase(Game).g.generation
            = complete_intergeneration_phase(Game).g.generation

\* C39: while the phase is Action, along any sequence of start_action_phase
\* and execute_action calls, the active-player pointer is set, designates one
\* of the session's players, and that player is not in the passed set.
C39_ActivePlayerCanAct ==
    phase = "Action" =>
        /\ active_player_id # <<>>
        /\ active_player_id[1] \in Seats(Game)
        /\ ~Contains(passed_players, active_player_id[1])

\* C39 (amended): in a session that has players, while the phase is Action,
\* along any sequence of start_action_phase and execute_action calls, the
\* active-player pointer is set, designates one of the session's players, and
\* that player is not in the passed set.
C39_ActivePlayerOfPopulatedSession ==
    Len(players) > 0 => C39_ActivePlayerCanAct

\* The first of two players passed by execute_action and the turn went to
\* the second, who has not passed.
C39_Witness ==
    /\ phase = "Action"
    /\ op = <<"execute_action", "Pass">>
    /\ ret = Ok
    /\ passed_players = <<1>>
    /\ active_player_id = <<2>>

\* GlobalParameters::is_fully_terraformed, which Game::is_fully_terraformed
\* returns: the four step indices are at their highest.
is_fully_terraformed(g) ==
    /\ g.global_parameters.oceans >= OCEANS_MAX_LEVEL - 1
    /\ g.global_parameters.oxygen >= OXYGEN_MAX_LEVEL - 1
    /\ g.global_parameters.temperature >= TEMPERATURE_MAX_LEVEL - 1
    /\ g.global_parameters.venus >= VENUS_MAX_LEVEL - 1

\* C40: Game::is_fully_terraformed agrees with the terraformed win condition
\* of check_win_conditions: where the solo rating win does not come first, it
\* is true exactly when check_win_conditions gives Terraformed, Venus being
\* required only when Venus Next is enabled.
C40_FullyTerraformedAgrees ==
    check_win_conditions(Game) # "SoloTr63" =>
        (is_fully_terraformed(Game) <=> check_win_conditions(Game) = "Terraformed")

\* The part that holds: with Venus Next enabled the two agree, and without it
\* is_fully_terraformed is the stronger of the two.
FullyTerraformedWithVenus ==
    check_win_conditions(Game) # "SoloTr63" =>
        /\ is_fully_terraformed(Game) => check_win_conditions(Game) = "Terraformed"
        /\ venus_next =>
               (check_win_conditions(Game) = "Terraformed" => is_fully_terraformed(Game))

\* Mars is terraformed in a game without Venus Next, Venus untouched: the win
\* condition holds and is_fully_terraformed is false.
TerraformedButNotFully ==
    /\ ~venus_next
    /\ check_win_conditions(Game) = "Terraformed"
    /\ ~is_fully_terraformed(Game)

====
